---- MODULE Spec2Model ----
(***************************************************************************)
(* Model of the chyoa-downloader command line tool: the parent-chain walk  *)
(* (fetcher.ts), the run of cliEntry / downloadStory (cli.ts) and the      *)
(* image localizer and reference rendering of the exporter (exporter.ts,   *)
(* utils.ts).                                                              *)
(*                                                                         *)
(* Strings that the code takes apart (image URLs, file names) are          *)
(* sequences of one-character strings, so that the string functions of     *)
(* utils.ts are computed the way the code computes them.  Chapter URLs are *)
(* small integers: the chain walk only compares them for equality.         *)
(***************************************************************************)
EXTENDS Integers, Sequences, FiniteSets, TLC

\* ------------------------------------------------------------------------
\* Bounds
\* ------------------------------------------------------------------------

\* number of chapter pages of the modelled site
NumUrls == 3

\* longest image list of a chapter in the localizer specification
MaxImgs == 2

\* ------------------------------------------------------------------------
\* String primitives (JavaScript String / node path), on character sequences
\* ------------------------------------------------------------------------

\* String.prototype.startsWith
StartsWith(s, p) ==
    /\ Len(p) <= Len(s)
    /\ SubSeq(s, 1, Len(p)) = p

\* String.prototype.endsWith
EndsWith(s, p) ==
    /\ Len(p) <= Len(s)
    /\ SubSeq(s, Len(s) - Len(p) + 1, Len(s)) = p

\* positions at which p occurs in s
Occurrences(s, p) ==
    { k \in 1..(Len(s) - Len(p) + 1) : SubSeq(s, k, k + Len(p) - 1) = p }

\* String.prototype.includes
Includes(s, p) == Occurrences(s, p) # {}

\* smallest element of a non-empty set of numbers
MinOf(S) == CHOOSE k \in S : \A m \in S : k <= m

\* largest element of a non-empty set of numbers
MaxOf(S) == CHOOSE k \in S : \A m \in S : k >= m

\* positions of the character c in s
CharPositions(s, c) == { k \in 1..Len(s) : s[k] = c }

\* s.split(c)[0]: the part of s before the first c
BeforeFirst(s, c) ==
    IF CharPositions(s, c) = {} THEN s
    ELSE SubSeq(s, 1, MinOf(CharPositions(s, c)) - 1)

\* String.prototype.replace(pattern: string, replacement): first occurrence only
ReplaceFirst(s, p, r) ==
    IF Occurrences(s, p) = {} THEN s
    ELSE LET k == MinOf(Occurrences(s, p))
         IN  SubSeq(s, 1, k - 1) \o r \o SubSeq(s, k + Len(p), Len(s))

\* String.prototype.replace(new RegExp(escaped(p), "g"), r): every occurrence,
\* scanning left to right over non-overlapping matches
RECURSIVE ReplaceAll(_, _, _)
ReplaceAll(s, p, r) ==
    IF p = <<>> \/ Occurrences(s, p) = {} THEN s
    ELSE LET k == MinOf(Occurrences(s, p))
         IN  SubSeq(s, 1, k - 1) \o r
                \o ReplaceAll(SubSeq(s, k + Len(p), Len(s)), p, r)

\* the letters that have a distinct lower-case form in the modelled alphabet
UpperToLower ==
    [c \in {"W", "E", "B", "P", "T"} |->
        CASE c = "W" -> "w" [] c = "E" -> "e" [] c = "B" -> "b"
          [] c = "P" -> "p" [] c = "T" -> "t"]

\* String.prototype.toLowerCase
ToLowerCase(s) ==
    [k \in 1..Len(s) |->
        IF s[k] \in DOMAIN UpperToLower THEN UpperToLower[s[k]] ELSE s[k]]

\* strip trailing "/" characters (node path.basename ignores them)
RECURSIVE StripTrailingSlashes(_)
StripTrailingSlashes(s) ==
    IF s # <<>> /\ s[Len(s)] = "/"
    THEN StripTrailingSlashes(SubSeq(s, 1, Len(s) - 1))
    ELSE s

\* path.basename(p): the last segment of p
PathBasename(p) ==
    LET q == StripTrailingSlashes(p)
        slashes == CharPositions(q, "/")
    IN  IF slashes = {} THEN q
        ELSE SubSeq(q, MaxOf(slashes) + 1, Len(q))

\* path.extname(f): from the last "." of the base name to its end; empty when
\* there is no "." or the only "." is the first character
PathExtname(f) ==
    LET b == PathBasename(f)
        dots == CharPositions(b, ".")
    IN  IF dots = {} \/ MaxOf(dots) = 1 THEN <<>>
        ELSE SubSeq(b, MaxOf(dots), Len(b))

\* path.parse(f).name: the base name without its extension
PathParseName(f) ==
    LET b == PathBasename(f)
    IN  SubSeq(b, 1, Len(b) - Len(PathExtname(f)))

\* ------------------------------------------------------------------------
\* String constants
\* ------------------------------------------------------------------------

BASE_URL == <<"h","t","t","p","s",":","/","/","c",".","o">>
IMAGES_DIR == <<"i","m","a","g","e","s">>
HTTP == <<"h","t","t","p">>
SCHEME_HTTPS == <<"h","t","t","p","s",":","/","/">>
SCHEME_HTTP == <<"h","t","t","p",":","/","/">>
DOT_WEBP == <<".","w","e","b","p">>
DOT_JPG == <<".","j","p","g">>
DEFAULT_JPG == <<"d","e","f","a","u","l","t",".","j","p","g">>
AVATAR_MALE == <<"a","v","a","t","a","r","-","m","a","l","e",".","j","p","g">>
AVATARS_DIR == <<"/","d","a","t","a","/","a","v","a","t","a","r","s","/">>
IMAGE_JPG == <<"i","m","a","g","e",".","j","p","g">>
IMAGE_ == <<"i","m","a","g","e","_">>
USER_PATH == <<"/","u","s","e","r","/">>

\* decimal digits of a small index, as `${index}` prints it
Digit(n) == <<CASE n = 0 -> "0" [] n = 1 -> "1" [] n = 2 -> "2" [] n = 3 -> "3"
                [] n = 4 -> "4" [] n = 5 -> "5" [] n = 6 -> "6" [] n = 7 -> "7"
                [] n = 8 -> "8" [] OTHER -> "9">>

\* ------------------------------------------------------------------------
\* utils.ts
\* ------------------------------------------------------------------------

\* 24 hours in milliseconds
SESSION_MAX_AGE == 24 * 60 * 60 * 1000

\* characters matched by \w, \s and "-" in the modelled alphabet
WordChars ==
    {"a","b","c","d","e","f","g","h","i","j","k","l","m","n","o","p","q","r",
     "s","t","u","v","w","x","y","z","W","E","B","P","T",
     "0","1","2","3","4","5","6","7","8","9","_"}
SpaceChars == {" ", "\n"}

\* .replace(/\s+/g, "_"): every run of whitespace becomes one "_"
RECURSIVE SpacesToUnderscore(_)
SpacesToUnderscore(s) ==
    IF s = <<>> THEN <<>>
    ELSE IF Head(s) \in SpaceChars
         THEN IF Len(s) > 1 /\ s[2] \in SpaceChars
              THEN SpacesToUnderscore(Tail(s))
              ELSE <<"_">> \o SpacesToUnderscore(Tail(s))
         ELSE <<Head(s)>> \o SpacesToUnderscore(Tail(s))

\* String.prototype.trim
RECURSIVE Trim(_)
Trim(s) ==
    IF s # <<>> /\ Head(s) \in SpaceChars THEN Trim(Tail(s))
    ELSE IF s # <<>> /\ s[Len(s)] \in SpaceChars
         THEN Trim(SubSeq(s, 1, Len(s) - 1))
         ELSE s

KeepTitleChar(c) == c \in WordChars \cup SpaceChars \cup {"-"}

\* sanitizeTitle: drop every character outside [\w\s-], then trim
sanitizeTitle(title) == Trim(SelectSeq(title, KeepTitleChar))

\* sanitizeFilename: drop characters outside [\w\s-], whitespace runs to "_",
\* lower case, trim
sanitizeFilename(filename) ==
    Trim(ToLowerCase(SpacesToUnderscore(SelectSeq(filename, KeepTitleChar))))

\* makeAbsoluteUrl(url, BASE_URL)
makeAbsoluteUrl(url) ==
    IF StartsWith(url, HTTP) THEN url
    ELSE IF StartsWith(url, <<"/", "/">>) THEN <<"h","t","t","p","s",":">> \o url
    ELSE IF StartsWith(url, <<"/">>) THEN BASE_URL \o url
    ELSE BASE_URL \o <<"/">> \o url

\* new URL(s) succeeds: s is absolute.  The modelled inputs are http(s) URLs
\* and scheme-less references, so "absolute" is "http(s):// and a host".
UrlParses(s) ==
    \/ StartsWith(s, SCHEME_HTTPS) /\ Len(s) > Len(SCHEME_HTTPS)
    \/ StartsWith(s, SCHEME_HTTP) /\ Len(s) > Len(SCHEME_HTTP)

\* new URL(s).pathname of an absolute http(s) URL: from the first "/" after
\* the host up to the query or fragment; "/" when the URL has no path
UrlPathname(s) ==
    LET rest == IF StartsWith(s, SCHEME_HTTPS)
                THEN SubSeq(s, Len(SCHEME_HTTPS) + 1, Len(s))
                ELSE SubSeq(s, Len(SCHEME_HTTP) + 1, Len(s))
        noFrag == BeforeFirst(BeforeFirst(rest, "?"), "#")
        slashes == CharPositions(noFrag, "/")
    IN  IF slashes = {} THEN <<"/">>
        ELSE SubSeq(noFrag, MinOf(slashes), Len(noFrag))

\* getFilenameFromUrl(imageUrl, fallbackName)
getFilenameFromUrl(imageUrl, fallbackName) ==
    IF ~UrlParses(imageUrl) THEN fallbackName
    ELSE LET filename == BeforeFirst(PathBasename(UrlPathname(imageUrl)), "?")
         IN  IF filename # <<>> THEN filename ELSE fallbackName

\* convertToWebpFilename(filename)
convertToWebpFilename(filename) == PathParseName(filename) \o DOT_WEBP

\* isValidStoryImage(src)
isValidStoryImage(src) ==
    /\ ~Includes(src, AVATARS_DIR)
    /\ ~Includes(src, AVATAR_MALE)
    /\ ~Includes(src, DEFAULT_JPG)

\* getMimeTypeFromExtension(ext)
getMimeTypeFromExtension(ext) ==
    LET e == ToLowerCase(ext)
    IN  CASE e = <<".","p","n","g">> -> "image/png"
          [] e = <<".","g","i","f">> -> "image/gif"
          [] e = DOT_WEBP -> "image/webp"
          [] OTHER -> "image/jpeg"

\* ------------------------------------------------------------------------
\* HTML text and cheerio
\*
\* HTML text is a sequence of symbols: single characters, and the tags below,
\* each one symbol.  A tag with attributes is the symbol that opens it, the
\* characters of its attribute values, and the symbol that ends it:
\* <img src="S" alt="A"> is IMG_OPEN, S, ALT_ATTR, A, ATTR_END.
\* ------------------------------------------------------------------------

IMG_OPEN == "<img src=\""
ALT_ATTR == "\" alt=\""
A_OPEN == "<a href=\""
ATTR_END == "\">"

\* the tags without attributes
SimpleTags ==
    {"<p>", "</p>", "<h1>", "</h1>", "<ul>", "</ul>", "<ol>", "</ol>",
     "<li>", "</li>", "<b>", "</b>", "<i>", "</i>", "<br>", "</a>"}

\* the symbols that open a tag with attributes
AttrTags == {IMG_OPEN, A_OPEN}

ENT_QUOT == <<"&","q","u","o","t",";">>
ENT_AMP == <<"&","a","m","p",";">>
ENT_LT == <<"&","l","t",";">>
ENT_GT == <<"&","g","t",";">>

\* the characters matched by [A-Z] in the modelled alphabet
UpperChars == DOMAIN UpperToLower

\* s from position k to its end
From(s, k) == SubSeq(s, k, Len(s))

\* the first position of the symbol c in s, Len(s) + 1 when there is none
IndexOf(s, c) ==
    IF CharPositions(s, c) = {} THEN Len(s) + 1 ELSE MinOf(CharPositions(s, c))

\* s.split(c)[1]: the part of s after the first c, empty when there is none
AfterFirst(s, c) == From(s, IndexOf(s, c) + 1)

\* the elements of s at the positions of the set P, in their order
SelectAt(s, P) ==
    LET indexed == SelectSeq([k \in 1..Len(s) |-> <<k, s[k]>>],
                             LAMBDA e : e[1] \in P)
    IN  [j \in 1..Len(indexed) |-> indexed[j][2]]

\* the character reference that s holds at position k, empty when there is none
EntityAt(s, k) ==
    LET rest == SubSeq(s, k, MinOf({Len(s), k + Len(ENT_QUOT) - 1}))
    IN  IF StartsWith(rest, ENT_QUOT) THEN ENT_QUOT
        ELSE IF StartsWith(rest, ENT_AMP) THEN ENT_AMP
        ELSE IF StartsWith(rest, ENT_LT) THEN ENT_LT
        ELSE IF StartsWith(rest, ENT_GT) THEN ENT_GT
        ELSE <<>>

\* the character a character reference stands for
EntityChar(entity) ==
    CASE entity = ENT_QUOT -> "\""
      [] entity = ENT_AMP -> "&"
      [] entity = ENT_LT -> "<"
      [] entity = ENT_GT -> ">"

\* the parser's decoding of character references, one pass from left to right
RECURSIVE DecodeEntities(_)
DecodeEntities(s) ==
    LET entities == {k \in CharPositions(s, "&") : EntityAt(s, k) # <<>>}
    IN  IF entities = {} THEN s
        ELSE LET k == MinOf(entities)
             IN  SubSeq(s, 1, k - 1) \o <<EntityChar(EntityAt(s, k))>>
                    \o DecodeEntities(From(s, k + Len(EntityAt(s, k))))

\* cheerio.load(html): the document, held as the sequence of its tags and of
\* the characters of its text and attribute values, character references
\* decoded
CheerioLoad(html) == DecodeEntities(html)

\* position k of the document lies inside a tag with attributes
InAttrTag(dom, k) ==
    LET opened == {j \in 1..k : dom[j] \in AttrTags}
    IN  /\ opened # {}
        /\ \A j \in MaxOf(opened)..(k - 1) : dom[j] # ATTR_END

\* the positions of the characters of the text nodes of the document
TextPositions(dom) ==
    {k \in 1..Len(dom) : dom[k] \notin SimpleTags /\ ~InAttrTag(dom, k)}

\* the serializer's escaping of one character of a text node
EncodeChar(c) ==
    CASE c = "&" -> ENT_AMP
      [] c = "<" -> ENT_LT
      [] c = ">" -> ENT_GT
      [] OTHER -> <<c>>

\* .html(): the document serialized; text is escaped, a tag is written as it is
RECURSIVE CheerioHtml(_)
CheerioHtml(dom) ==
    LET escaped == {k \in TextPositions(dom) : dom[k] \in {"&", "<", ">"}}
    IN  IF escaped = {} THEN dom
        ELSE LET k == MinOf(escaped)
             IN  SubSeq(dom, 1, k - 1) \o EncodeChar(dom[k])
                    \o CheerioHtml(From(dom, k + 1))

\* .text(): the characters of the text nodes, without tags and attributes
CheerioText(dom) == SelectAt(dom, TextPositions(dom))

\* the attributes of the <img> that dom starts with
ImgAttrs(dom) == SubSeq(dom, 2, IndexOf(dom, ATTR_END) - 1)

\* $(img).attr("src") || ""
ImgSrc(dom) == BeforeFirst(ImgAttrs(dom), ALT_ATTR)

\* $(img).attr("alt") || ""
ImgAlt(dom) == AfterFirst(ImgAttrs(dom), ALT_ATTR)

\* the <img> elements of a document, in document order
RECURSIVE ImgElements(_)
ImgElements(dom) ==
    IF IndexOf(dom, IMG_OPEN) > Len(dom) THEN <<>>
    ELSE LET img == From(dom, IndexOf(dom, IMG_OPEN))
         IN  <<[src |-> ImgSrc(img), alt |-> ImgAlt(img)]>>
                \o ImgElements(From(img, IndexOf(img, ATTR_END) + 1))

\* the src attributes of the <img> elements of a document, in document order
ImgSrcs(dom) == [k \in 1..Len(ImgElements(dom)) |-> ImgElements(dom)[k].src]

\* the contents of the elements between the tags open and close, in document
\* order
RECURSIVE ElementContents(_, _, _)
ElementContents(dom, open, close) ==
    IF IndexOf(dom, open) > Len(dom) THEN <<>>
    ELSE LET element == From(dom, IndexOf(dom, open))
             end == IndexOf(element, close)
         IN  <<SubSeq(element, 2, end - 1)>>
                \o ElementContents(From(element, end + 1), open, close)

\* <img src="src"> and <img src="src" alt="alt"> as the serializer writes them
ImgTag(src) == <<IMG_OPEN>> \o src \o <<ATTR_END>>
ImgTagAlt(src, alt) == <<IMG_OPEN>> \o src \o <<ALT_ATTR>> \o alt \o <<ATTR_END>>

\* the body whose elements are the images with the given src attributes
ImagesBody(srcs) ==
    IF srcs = <<>> THEN <<>>
    ELSE LET tags == [k \in 1..Len(srcs) |-> ImgTag(srcs[k])]
             RECURSIVE Concat(_)
             Concat(k) == IF k > Len(tags) THEN <<>> ELSE tags[k] \o Concat(k + 1)
         IN  Concat(1)

\* ------------------------------------------------------------------------
\* State
\* ------------------------------------------------------------------------

VARIABLES
    pc,             \* position of the run
    siteParent,     \* the site: parent link of every chapter page (0: none)
    siteBody,       \* the site: <img> src attributes of every page's body
    siteStatus,     \* the site: HTTP status it answers for every chapter URL
    storyUrl,       \* the URL given to downloadStory / getStoryChain
    currentUrl,     \* getStoryChain: currentUrl ('' is 0)
    visitedUrls,    \* getStoryChain: visitedUrls
    stories,        \* getStoryChain: stories
    cycleLogged,    \* getStoryChain: the "Cycle detected" message was logged
    threw,          \* the exception propagating out of downloadStory's try:
                    \* "none", "fetch" (a page load), "export" (a chapter,
                    \* combined or JSON file write) or "image"
    storyChain,     \* downloadStory: storyChain
    pageLoads,      \* number of page loads of every chapter URL
    inFlight,       \* the requests sent to the site and not yet settled
    fromFetcher,    \* the StoryData being exported were built by fetchStoryData
    exporter,       \* StoryExporter: its configuration, combinedStories, chapters
    chapIdx,        \* downloadStory: i, the loop index over storyChain
    imgIdx,         \* processImages: i, the loop index over story.images
    processedImages,\* processImages: processedImages
    imageLoads,     \* number of page.goto calls for every image URL
    imageFiles,     \* files written into the images directory
    embeds,         \* data URLs substituted into chapter bodies
    imgLog,         \* what happened to every entry of every image list
    outFiles,       \* chapter, combined and JSON files written
    argv,           \* the parsed command line
    exitCode,       \* exit status of the process, -1 while it runs
    exitMsg,        \* the error message printed before the process exits
    ioLog,          \* kinds of I/O performed so far
    sessionFile,    \* the saved session file: "absent", "corrupt" or its data
    credentials,    \* AuthManager.credentials
    browser,        \* AuthManager.browser: "none", "headless" or "visible"
    openBrowsers,   \* number of launched browsers that were not closed
    sessionValid    \* downloadStory: sessionValid

walkVars == <<siteParent, siteBody, siteStatus, storyUrl, currentUrl, visitedUrls, stories,
              cycleLogged, storyChain, pageLoads, inFlight>>

exportVars == <<fromFetcher, exporter, chapIdx, imgIdx, processedImages,
                imageLoads, imageFiles, embeds, imgLog, outFiles>>

cliVars == <<argv, exitCode, exitMsg, ioLog, sessionFile, credentials, browser,
             openBrowsers, sessionValid>>

vars == <<pc, threw, walkVars, exportVars, cliVars>>

Urls == 1..NumUrls

\* no URL: undefined parentUrl, '' currentUrl
None == 0

\* the page title the site serves for a chapter
PageTitle(u) == <<"T", " ">> \o Digit(u)

\* ------------------------------------------------------------------------
\* fetcher.ts
\* ------------------------------------------------------------------------

\* fetchStoryData, lines 86-99: the valid src attributes of the <img> elements
\* of the chapter content, absolutized
ExtractImages(dom) ==
    LET valid == SelectSeq(ImgSrcs(dom),
                           LAMBDA src : src # <<>> /\ isValidStoryImage(src))
    IN  [k \in 1..Len(valid) |-> makeAbsoluteUrl(valid[k])]

\* the URL of chapter u of the site, and the chapter a URL names (None when it
\* names no chapter of the site)
CHAPTER_PATH == <<"/","c","h","a","p","t","e","r","/">>
ChapterPath(u) == CHAPTER_PATH \o <<"c", ".">> \o Digit(u)
ChapterUrl(u) == BASE_URL \o ChapterPath(u)
UrlIndex(s) ==
    IF \E u \in Urls : ChapterUrl(u) = s
    THEN CHOOSE u \in Urls : ChapterUrl(u) = s
    ELSE None

PREVIOUS_CHAPTER ==
    <<"P","r","e","v","i","o","u","s"," ","C","h","a","p","t","e","r">>

\* the value `undefined`, a symbol that is no string
UNDEFINED == <<"undefined">>

\* the test `if (x)` of a string or undefined
Truthy(x) == x # <<>> /\ x # UNDEFINED

\* s.split('/').pop()
LastSegment(s) ==
    IF CharPositions(s, "/") = {} THEN s
    ELSE From(s, MaxOf(CharPositions(s, "/")) + 1)

\* seg.split('.')[1]: the part between the first and the second dot,
\* undefined when seg has no dot
SecondDotPart(seg) ==
    LET dots == CharPositions(seg, ".")
    IN  IF dots = {} THEN UNDEFINED
        ELSE LET later == {d \in dots : d > MinOf(dots)}
             IN  SubSeq(seg, MinOf(dots) + 1,
                        IF later = {} THEN Len(seg) ELSE MinOf(later) - 1)

\* fetchStoryData lines 103 and 116: the story ID of a URL
StoryId(url) == SecondDotPart(LastSegment(url))

\* $('a'): href and text of the anchors of the document, in document order
RECURSIVE Anchors(_)
Anchors(dom) ==
    IF IndexOf(dom, A_OPEN) > Len(dom) THEN <<>>
    ELSE LET element == From(dom, IndexOf(dom, A_OPEN))
             end == IndexOf(element, "</a>")
         IN  <<[href |-> SubSeq(element, 2, IndexOf(element, ATTR_END) - 1),
                text |-> CheerioText(SubSeq(element, 1, end - 1))]>>
                \o Anchors(From(element, end + 1))

\* fetchStoryData line 117: the test of the story ID of a link
LinkIdAny(linkStoryId, currentStoryId) == TRUE
LinkIdDiffers(linkStoryId, currentStoryId) ==
    Truthy(linkStoryId) /\ linkStoryId # currentStoryId

\* fetchStoryData lines 110-117: the link is taken as the parent link
IsParentLink(link, url) ==
    /\ link.href # <<>>
    /\ Includes(link.href, CHAPTER_PATH)
    /\ link.href # url
    /\ Trim(link.text) = PREVIOUS_CHAPTER
    /\ LinkIdDiffers(StoryId(link.href), StoryId(url))

\* fetchStoryData lines 102-122: parentUrl, undefined when no link is taken
ParentUrl(url, dom) ==
    LET links == Anchors(dom)
        taken == {k \in 1..Len(links) : IsParentLink(links[k], url)}
    IN  IF taken = {} THEN UNDEFINED
        ELSE makeAbsoluteUrl(links[MinOf(taken)].href)

\* the navigation of a chapter page: the link to the parent chapter
PreviousChapterLink(u) ==
    IF siteParent[u] = None THEN <<>>
    ELSE <<A_OPEN>> \o ChapterUrl(siteParent[u]) \o <<ATTR_END>>
            \o PREVIOUS_CHAPTER \o <<"</a>">>

\* the document of a chapter page: its navigation, then the chapter content
PageDocument(u) == PreviousChapterLink(u) \o siteBody[u]

\* response.ok: the status is in the range 200-299
ResponseOk(status) == status \in 200..299

\* what one page load may meet: the site answers with a document, the
\* connection fails, or a bot challenge is served instead of the site's answer
PageAnswers == {"page", "network_failure", "challenge"}

\* fetchStoryData line 48: the browser is used when it is configured and a
\* page was passed to the fetcher
UsesBrowser == ~argv.noPuppeteer /\ browser # "none"

\* fetchWithPuppeteer (140-195) and fetchWithHttp (197-276): the load throws.
\* page.goto and fetch reject on a network failure; both functions throw on
\* the markers of a challenge (166-187, 233-241); only fetchWithHttp looks at
\* the status of the response (244-263).
FetchThrows(usesBrowser, answer, status) ==
    \/ answer # "page"
    \/ ~usesBrowser /\ ~ResponseOk(status)

\* the title of the document the site serves with an error status
ErrorPageTitle == <<"E", "r", "r", "o", "r">>

\* fetchStoryData lines 56-130, the StoryData it returns for the document the
\* site answers: the chapter page, or for an error status an error document
\* without chapter content and links
fetchStoryData(u) ==
    IF ResponseOk(siteStatus[u])
    THEN [url |-> u,
          title |-> sanitizeTitle(PageTitle(u)),
          content |-> CheerioHtml(CheerioLoad(siteBody[u])),
          images |-> ExtractImages(CheerioLoad(siteBody[u])),
          parentUrl |-> UrlIndex(ParentUrl(ChapterUrl(u),
                                           CheerioLoad(PageDocument(u))))]
    ELSE [url |-> u,
          title |-> sanitizeTitle(ErrorPageTitle),
          content |-> <<>>,
          images |-> <<>>,
          parentUrl |-> None]

\* fetchWithHttp lines 201-227: the request it sends; the Cookie header is
\* set from its second parameter ("none": the header is absent)
fetchWithHttp(u, sessionCookie) ==
    [kind |-> "page", url |-> u, via |-> "http", cookieHeader |-> sessionCookie]

\* fetchWithPuppeteer line 152: page.goto(storyUrl)
fetchWithPuppeteer(u) ==
    [kind |-> "page", url |-> u, via |-> "browser", cookieHeader |-> "none"]

\* fetchStoryData lines 48-54: the request of a chapter page; fetchWithHttp is
\* called with the URL alone
FetchRequest(u) ==
    IF UsesBrowser THEN fetchWithPuppeteer(u) ELSE fetchWithHttp(u, "none")

\* `await`: the caller goes on when the request has settled, which takes it
\* out of the requests in flight
NotAwaited(pending, request) == pending
Awaited(pending, request) == pending \ {request}

\* getStoryChain, line 27: the loop condition
LoopCondNoVisitedTest(cur, visited) == cur # None
LoopCond(cur, visited) == cur # None /\ cur \notin visited

\* getStoryChain, line 29: visitedUrls.add(currentUrl)
MarkVisitedForgotten(visited, cur) == visited
MarkVisited(visited, cur) == visited \cup {cur}

\* getStoryChain, line 31: stories.unshift(storyData)
UnshiftAsPush(list, s) == Append(list, s)
Unshift(list, s) == <<s>> \o list

\* cap on the number of loop iterations of one walk; the code's own bound is
\* the number of distinct URLs
MaxChain == NumUrls + 1

\* getStoryChain, lines 27-30: the loop is entered and fetchStoryData sends
\* the request of the page.  The page load either returns the page or throws;
\* a throw leaves getStoryChain and propagates to the caller's finally block.
WalkRequest ==
    /\ pc = "walk"
    /\ LoopCond(currentUrl, visitedUrls)
    /\ Len(stories) < MaxChain
    /\ FetchRequest(currentUrl) \notin inFlight
    /\ inFlight' = inFlight \cup {FetchRequest(currentUrl)}
    /\ UNCHANGED <<pc, threw, siteParent, siteBody, siteStatus, storyUrl,
                   currentUrl, visitedUrls, stories, cycleLogged, storyChain,
                   pageLoads>>
    /\ UNCHANGED <<exportVars, cliVars>>

\* getStoryChain, lines 29-32: the rest of the iteration, once the request of
\* line 30 has settled
WalkIterate ==
    /\ pc = "walk"
    /\ LoopCond(currentUrl, visitedUrls)
    /\ FetchRequest(currentUrl) \in inFlight
    /\ inFlight' = Awaited(inFlight, FetchRequest(currentUrl))
    /\ visitedUrls' = MarkVisited(visitedUrls, currentUrl)
    /\ pageLoads' = [pageLoads EXCEPT ![currentUrl] = @ + 1]
    /\ \/ /\ \E answer \in PageAnswers :
                FetchThrows(UsesBrowser, answer, siteStatus[currentUrl])
          /\ pc' = "finally"
          /\ threw' = "fetch"
          /\ UNCHANGED <<stories, currentUrl>>
       \/ /\ \E answer \in PageAnswers :
                ~FetchThrows(UsesBrowser, answer, siteStatus[currentUrl])
          /\ stories' = Unshift(stories, fetchStoryData(currentUrl))
          /\ currentUrl' = fetchStoryData(currentUrl).parentUrl
          /\ UNCHANGED <<pc, threw>>
    /\ UNCHANGED <<siteParent, siteBody, siteStatus, storyUrl, cycleLogged,
                   storyChain>>
    /\ UNCHANGED <<exportVars, cliVars>>

\* getStoryChain, lines 35-41: the loop has ended; log a cycle, return stories
WalkReturn ==
    /\ pc = "walk"
    /\ ~LoopCond(currentUrl, visitedUrls)
    /\ cycleLogged' = (currentUrl # None /\ currentUrl \in visitedUrls)
    /\ storyChain' = stories
    /\ pc' = "chain"
    /\ UNCHANGED <<threw, siteParent, siteBody, siteStatus, storyUrl, currentUrl,
                   visitedUrls, stories, pageLoads, inFlight>>
    /\ UNCHANGED <<exportVars, cliVars>>

\* ------------------------------------------------------------------------
\* exporter.ts
\* ------------------------------------------------------------------------

\* new StoryExporter(outputDir, convertToWebp, embedImages, singleFile,
\* jsonFile, page): page is TRUE when a browser page was passed
NewExporter(convertToWebp, embedImages, singleFile, jsonFile, page) ==
    [convertToWebp |-> convertToWebp,
     embedImages |-> embedImages,
     singleFile |-> singleFile,
     jsonFile |-> jsonFile,
     page |-> page,
     combinedStories |-> <<>>,
     chapters |-> <<>>]

\* downloadImage line 85, processImageForEmbedding line 171: fullUrl
FullUrl(imageUrl) ==
    IF StartsWith(imageUrl, HTTP) THEN imageUrl ELSE BASE_URL \o imageUrl

\* downloadImage line 106, processImageForEmbedding line 178: the test for a
\* placeholder of a protected image
IsPlaceholderNever(fullUrl) == FALSE
IsPlaceholder(fullUrl) == Includes(fullUrl, DEFAULT_JPG)

\* processImages line 57: the name under which an image is de-duplicated
DedupName(imageUrl, i) ==
    getFilenameFromUrl(imageUrl, IMAGE_ \o Digit(i) \o DOT_JPG)

\* downloadImage lines 92-95: the file name taken from the URL
DownloadName(fullUrl, storyTitle, index) ==
    getFilenameFromUrl(fullUrl,
        sanitizeFilename(storyTitle) \o <<"_">> \o Digit(index) \o DOT_JPG)

\* downloadImage lines 99-101: the name after the optional WebP renaming
TargetName(fullUrl, storyTitle, index, convertToWebp) ==
    IF convertToWebp
    THEN convertToWebpFilename(DownloadName(fullUrl, storyTitle, index))
    ELSE DownloadName(fullUrl, storyTitle, index)

\* downloadImage line 146: the value of `filename` after a failed conversion
FallbackName(fullUrl, storyTitle, index) ==
    ReplaceFirst(TargetName(fullUrl, storyTitle, index, TRUE), DOT_WEBP,
                 PathExtname(DownloadName(fullUrl, storyTitle, index)))

\* downloadImage line 103: filepath, relative to the output directory.  It is
\* computed once, before the conversion is attempted, and line 154 writes to
\* it; the fallback of line 146 changes `filename` only.
FilePath(fullUrl, storyTitle, index, convertToWebp) ==
    IMAGES_DIR \o <<"/">> \o TargetName(fullUrl, storyTitle, index, convertToWebp)

\* processImageForEmbedding lines 205-225: the MIME type of the data URL
EmbedMimeType(fullUrl, convertToWebp, transcodeOk) ==
    IF convertToWebp /\ transcodeOk THEN "image/webp"
    ELSE getMimeTypeFromExtension(PathExtname(UrlPathname(fullUrl)))

\* the bytes a buffer holds: the image served at fullUrl, as served ("orig")
\* or transcoded ("webp")
Bytes(fullUrl, convertToWebp, transcodeOk) ==
    [of |-> fullUrl,
     enc |-> IF convertToWebp /\ transcodeOk THEN "webp" ELSE "orig"]

\* processImageForEmbedding lines 228-229: base64DataUrl; the MIME type and
\* the base64 text are one symbol each
DataUrl(fullUrl, convertToWebp, transcodeOk) ==
    <<"d","a","t","a",":">>
        \o <<EmbedMimeType(fullUrl, convertToWebp, transcodeOk)>>
        \o <<";","b","a","s","e","6","4",",">>
        \o <<ToString(Bytes(fullUrl, convertToWebp, transcodeOk))>>

\* processImageForEmbedding lines 232-235: every occurrence of imageUrl in the
\* text of the body is replaced
EmbedInContent(content, imageUrl, dataUrl) ==
    ReplaceAll(content, imageUrl, dataUrl)

\* where an error raised while one image is processed is handled:
\* "inner" is the catch of downloadImage (155) / processImageForEmbedding (240),
\* "outer" the catch of processImages (67), "propagate" neither
ImageErrorRethrown == "propagate"
ImageErrorHandledBy == "inner"

\* convertHtmlToMarkdown lines 254-270: the reference emitted for an <img>
RenderImageRef(src, embedImages, convertToWebp) ==
    IF embedImages THEN src
    ELSE LET name == getFilenameFromUrl(src, IMAGE_JPG)
         IN  IMAGES_DIR \o <<"/">> \o
                (IF convertToWebp /\ ~EndsWith(ToLowerCase(name), DOT_WEBP)
                 THEN convertToWebpFilename(name)
                 ELSE name)

\* convertHtmlToMarkdown line 274: the Markdown image written for an <img>
ImageMarkdown(alt, imageSrc) ==
    <<"!", "[">> \o alt \o <<"]", "(">> \o imageSrc \o <<")">>

\* convertHtmlToMarkdown lines 253-276: every <img> with a src is replaced by
\* its Markdown image; an <img> without src is left alone
RECURSIVE ReplaceImages(_, _, _)
ReplaceImages(dom, embedImages, convertToWebp) ==
    IF IndexOf(dom, IMG_OPEN) > Len(dom) THEN dom
    ELSE LET start == IndexOf(dom, IMG_OPEN)
             img == From(dom, start)
             end == IndexOf(img, ATTR_END)
         IN  SubSeq(dom, 1, start - 1)
                \o (IF ImgSrc(img) # <<>>
                    THEN ImageMarkdown(ImgAlt(img),
                            RenderImageRef(ImgSrc(img), embedImages, convertToWebp))
                    ELSE SubSeq(img, 1, end))
                \o ReplaceImages(From(img, end + 1), embedImages, convertToWebp)

\* convertHtmlToMarkdown lines 279-285: the elements between the tags open and
\* close are replaced by their text between the marks
RECURSIVE ReplaceWithMarkedText(_, _, _, _)
ReplaceWithMarkedText(dom, open, close, mark) ==
    IF IndexOf(dom, open) > Len(dom) THEN dom
    ELSE LET start == IndexOf(dom, open)
             element == From(dom, start)
             end == IndexOf(element, close)
         IN  SubSeq(dom, 1, start - 1)
                \o mark \o CheerioText(SubSeq(element, 2, end - 1)) \o mark
                \o ReplaceWithMarkedText(From(element, end + 1), open, close, mark)

\* convertHtmlToMarkdown lines 288-290: every <a> is replaced by its text
RECURSIVE ReplaceAnchors(_)
ReplaceAnchors(dom) ==
    IF IndexOf(dom, A_OPEN) > Len(dom) THEN dom
    ELSE LET start == IndexOf(dom, A_OPEN)
             element == From(dom, start)
             end == IndexOf(element, "</a>")
         IN  SubSeq(dom, 1, start - 1)
                \o CheerioText(SubSeq(element, 1, end - 1))
                \o ReplaceAnchors(From(element, end + 1))

\* $("p"): the contents of the <p> elements of the document, in document order
Paragraphs(dom) == ElementContents(dom, "<p>", "</p>")

\* .replace(/<br\s*\/?>/gi, " ")
BrToSpace(s) == [k \in 1..Len(s) |-> IF s[k] = "<br>" THEN " " ELSE s[k]]

\* .replace(/<[^>]*>/g, ""): the text is serialized HTML, in which "<" and ">"
\* delimit tags only
StripTags(s) == SelectAt(s, TextPositions(s))

\* lines 302-305: the four replacements, one after the other
UnescapeEntities(s) ==
    ReplaceAll(ReplaceAll(ReplaceAll(ReplaceAll(s, ENT_QUOT, <<"\"">>),
                                     ENT_AMP, <<"&">>),
                          ENT_LT, <<"<">>),
               ENT_GT, <<">">>)

\* .replace(/\s+/g, " "): every run of whitespace becomes one space
CollapseWhitespace(s) ==
    LET kept == SelectAt(s, {k \in 1..Len(s) :
                               \/ s[k] \notin SpaceChars
                               \/ k = 1
                               \/ s[k - 1] \notin SpaceChars})
    IN  [k \in 1..Len(kept) |-> IF kept[k] \in SpaceChars THEN " " ELSE kept[k]]

\* lines 299-307: cleanText of a paragraph whose inner HTML is text
CleanText(text) ==
    Trim(CollapseWhitespace(UnescapeEntities(StripTags(BrToSpace(text)))))

\* lines 293-313: the Markdown of the paragraphs, each followed by a blank line
RECURSIVE ParagraphsMarkdown(_)
ParagraphsMarkdown(paragraphs) ==
    IF paragraphs = <<>> THEN <<>>
    ELSE LET text == CheerioHtml(Head(paragraphs))
         IN  (IF Trim(text) # <<>> /\ CleanText(text) # <<>>
              THEN CleanText(text) \o <<"\n", "\n">>
              ELSE <<>>)
                \o ParagraphsMarkdown(Tail(paragraphs))

\* the length of the whitespace at the start of s
RECURSIVE LeadingWhitespace(_)
LeadingWhitespace(s) ==
    IF s # <<>> /\ Head(s) \in SpaceChars THEN 1 + LeadingWhitespace(Tail(s))
    ELSE 0

\* the positions of the line breaks of the run of whitespace that starts at
\* position k of s
BreaksOfRun(s, k) ==
    {j \in k..(k + LeadingWhitespace(From(s, k)) - 1) : s[j] = "\n"}

\* .replace(/\n\s*\n\s*\n+/g, "\n\n"): a run of whitespace that starts with a
\* line break and holds three or more of them is replaced, up to its last line
\* break, by two line breaks
RECURSIVE NormalizeLineBreaks(_)
NormalizeLineBreaks(s) ==
    LET matches == {k \in CharPositions(s, "\n") :
                       Cardinality(BreaksOfRun(s, k)) >= 3}
    IN  IF matches = {} THEN s
        ELSE LET k == MinOf(matches)
             IN  SubSeq(s, 1, k - 1) \o <<"\n", "\n">>
                    \o NormalizeLineBreaks(From(s, MaxOf(BreaksOfRun(s, k)) + 1))

\* the length of the match of !\[([^\]]*)\]\(([^)]*)\) at the start of s, 0
\* when s does not start with a Markdown image
ImageSyntaxLength(s) ==
    IF ~StartsWith(s, <<"!", "[">>) THEN 0
    ELSE LET bracket == IndexOf(s, "]")
         IN  IF bracket + 1 > Len(s) \/ s[bracket + 1] # "(" THEN 0
             ELSE LET paren == bracket + 1 + IndexOf(From(s, bracket + 2), ")")
                  IN  IF paren > Len(s) THEN 0 ELSE paren

\* the position in s of the capital letter that follows, after any whitespace,
\* the Markdown image starting at position k; 0 when there is no such image or
\* no such letter
CapitalAfterImage(s, k) ==
    LET image == ImageSyntaxLength(From(s, k))
        letter == k + image + LeadingWhitespace(From(s, k + image))
    IN  IF image > 0 /\ letter <= Len(s) /\ s[letter] \in UpperChars
        THEN letter ELSE 0

\* .replace(/!\[([^\]]*)\]\(([^)]*)\)\s*([A-Z])/g, "![$1]($2)\n\n$3")
RECURSIVE SpaceAfterImages(_)
SpaceAfterImages(s) ==
    LET matches == {k \in CharPositions(s, "!") : CapitalAfterImage(s, k) > 0}
    IN  IF matches = {} THEN s
        ELSE LET k == MinOf(matches)
                 image == ImageSyntaxLength(From(s, k))
                 letter == CapitalAfterImage(s, k)
             IN  SubSeq(s, 1, k + image - 1) \o <<"\n", "\n", s[letter]>>
                    \o SpaceAfterImages(From(s, letter + 1))

\* convertHtmlToMarkdown lines 246-248: the result for an empty or
\* whitespace-only body
BlankMarkdownAsInput(html) == html
BlankMarkdown(html) == <<>>

\* convertHtmlToMarkdown lines 250-290: the document after its images, bold
\* and italic elements and anchors were replaced
InlineMarkdown(html, embedImages, convertToWebp) ==
    ReplaceAnchors(
        ReplaceWithMarkedText(
            ReplaceWithMarkedText(
                ReplaceImages(CheerioLoad(html), embedImages, convertToWebp),
                "<b>", "</b>", <<"*", "*">>),
            "<i>", "</i>", <<"*">>))

\* convertHtmlToMarkdown(html)
convertHtmlToMarkdown(html, embedImages, convertToWebp) ==
    IF html = <<>> \/ Trim(html) = <<>> THEN BlankMarkdown(html)
    ELSE LET dom == InlineMarkdown(html, embedImages, convertToWebp)
             paragraphs == ParagraphsMarkdown(Paragraphs(dom))
             markdown == IF Trim(paragraphs) = <<>>
                         THEN Trim(CollapseWhitespace(CheerioText(dom)))
                         ELSE paragraphs
         IN  Trim(SpaceAfterImages(NormalizeLineBreaks(markdown)))

\* $("a[href*='/user/']").each(...): the trimmed texts of the anchors of the
\* body whose href contains /user/, in document order
RECURSIVE UserAnchorTexts(_)
UserAnchorTexts(dom) ==
    IF IndexOf(dom, A_OPEN) > Len(dom) THEN <<>>
    ELSE LET element == From(dom, IndexOf(dom, A_OPEN))
             end == IndexOf(element, "</a>")
             href == SubSeq(element, 2, IndexOf(element, ATTR_END) - 1)
         IN  (IF Includes(href, USER_PATH)
              THEN <<Trim(CheerioText(SubSeq(element, 1, end - 1)))>>
              ELSE <<>>)
                \o UserAnchorTexts(From(element, end + 1))

\* the names that pass the test `if (authorName)` of lines 352, 397 and 450
AuthorNames(content) ==
    SelectSeq(UserAnchorTexts(CheerioLoad(content)),
              LAMBDA authorName : authorName # <<>>)

\* saveStoryAsMarkdown lines 347-355, collectChapter lines 445-453: author,
\* empty when there is none
ChapterAuthor(content) ==
    IF AuthorNames(content) = <<>> THEN <<>> ELSE AuthorNames(content)[1]

\* String(index).padStart(2, "0")
Pad2(index) ==
    IF index < 10 THEN <<"0">> \o Digit(index)
    ELSE Digit(index \div 10) \o Digit(index % 10)

\* saveStoryAsMarkdown line 344: the chapter file name
ChapterFileNameOneBased(index, title) ==
    Pad2(index + 1) \o <<"_">> \o sanitizeFilename(title) \o <<".","m","d">>
ChapterFileName(index, title) ==
    Pad2(index) \o <<"_">> \o sanitizeFilename(title) \o <<".","m","d">>

\* buildChapterTree line 490: chapter with the list children as its children
WithChildren(chapter, children) ==
    IF "author" \in DOMAIN chapter
    THEN [title |-> chapter.title, content |-> chapter.content,
          author |-> chapter.author, children |-> children]
    ELSE [title |-> chapter.title, content |-> chapter.content,
          children |-> children]

\* buildChapterTree: node k has node k+1 as its only child
ChapterTreeFlat(chapters, k) == chapters[k]
RECURSIVE ChapterTree(_, _)
ChapterTree(chapters, k) ==
    IF k = Len(chapters) THEN chapters[k]
    ELSE WithChildren(chapters[k], <<ChapterTree(chapters, k + 1)>>)

\* collectChapter lines 455-462: the chapter pushed for a story
CollectedChapter(story, embedImages, convertToWebp) ==
    LET markdown == convertHtmlToMarkdown(story.content, embedImages,
                                          convertToWebp)
        author == ChapterAuthor(story.content)
    IN  IF author # <<>>
        THEN [title |-> story.title, content |-> markdown, author |-> author]
        ELSE [title |-> story.title, content |-> markdown]

\* saveCombinedStoryAsMarkdown line 413: a separator rule follows the chapter
\* saved with this index
SeparatorAlways(index, count) == TRUE
SeparatorAfter(index, count) == index < count - 1

\* allAuthors.add(authorName) for every name of names: a Set keeps the order
\* of insertion
RECURSIVE AddAll(_, _)
AddAll(list, names) ==
    IF names = <<>> THEN list
    ELSE AddAll(IF \E j \in 1..Len(list) : list[j] = Head(names)
                THEN list ELSE Append(list, Head(names)),
                Tail(names))

\* saveCombinedStoryAsMarkdown lines 387-400: allAuthors after the first k
\* stories
RECURSIVE AllAuthors(_, _)
AllAuthors(combined, k) ==
    IF k = 0 THEN <<>>
    ELSE AddAll(AllAuthors(combined, k - 1),
                AuthorNames(combined[k].story.content))

\* the story the loops of downloadStory and processImages are working on
CurStory == storyChain[chapIdx + 1]

\* what the net, the transcoder and the file system may answer for one image
\* load: page.goto throws, answers an HTTP error or an empty body, or answers
\* the bytes; sharp converts them or throws; writeFile succeeds or throws
ImageAnswers ==
    [net : {"throws", "http_error", "empty", "ok"},
     transcodeOk : BOOLEAN,
     writeOk : BOOLEAN]

\* add one load of fullUrl to the count of image loads
CountLoad(loads, fullUrl) ==
    IF fullUrl \in DOMAIN loads
    THEN [loads EXCEPT ![fullUrl] = @ + 1]
    ELSE [u \in DOMAIN loads \cup {fullUrl} |->
            IF u = fullUrl THEN 1 ELSE loads[u]]

\* the first error met while an image is processed with answers a, "none"
\* when it is processed to the end
ImageError(a, embedImages) ==
    IF a.net = "throws" THEN "load"
    ELSE IF a.net # "ok" THEN "none"
    ELSE IF ~embedImages /\ ~a.writeOk THEN "write"
    ELSE "none"

\* downloadImage line 113, processImageForEmbedding line 184: page.goto(fullUrl)
ImageRequest(fullUrl) ==
    [kind |-> "image", url |-> fullUrl, via |-> "browser", cookieHeader |-> "none"]

\* processImages lines 55-65 with downloadImage up to line 113 or
\* processImageForEmbedding up to line 184: an image that is not skipped is
\* requested
ProcessImagesRequest ==
    /\ pc = "images"
    /\ imgIdx < Len(CurStory.images)
    /\ LET imageUrl == CurStory.images[imgIdx + 1]
           fullUrl == FullUrl(imageUrl)
       IN  /\ DedupName(imageUrl, imgIdx) \notin processedImages
           /\ exporter.page
           /\ ~IsPlaceholder(fullUrl)
           /\ ImageRequest(fullUrl) \notin inFlight
           /\ inFlight' = inFlight \cup {ImageRequest(fullUrl)}
    /\ UNCHANGED <<pc, threw, siteParent, siteBody, siteStatus, storyUrl,
                   currentUrl, visitedUrls, stories, cycleLogged, storyChain,
                   pageLoads>>
    /\ UNCHANGED <<exportVars, cliVars>>

\* processImages lines 55-71: one iteration of the loop, with the call of
\* downloadImage (74-158) or processImageForEmbedding (160-243) it makes,
\* once the request of the image, if one is made, has settled
ProcessImagesStep ==
    /\ pc = "images"
    /\ imgIdx < Len(CurStory.images)
    /\ LET imageUrl == CurStory.images[imgIdx + 1]
           filename == DedupName(imageUrl, imgIdx)
           fullUrl == FullUrl(imageUrl)
           cfg == exporter
           entry == [ch |-> chapIdx, idx |-> imgIdx]
       IN
       IF filename \in processedImages
       THEN \* line 59: already processed
            /\ imgLog' = imgLog \cup {[at |-> entry, what |-> "duplicate"]}
            /\ imgIdx' = imgIdx + 1
            /\ UNCHANGED <<pc, threw, processedImages, imageLoads, imageFiles,
                           embeds, storyChain, inFlight>>
       ELSE IF ~cfg.page
       THEN \* lines 79-82, 165-168: no browser page
            /\ imgLog' = imgLog \cup {[at |-> entry, what |-> "no_page"]}
            /\ processedImages' = processedImages \cup {filename}
            /\ imgIdx' = imgIdx + 1
            /\ UNCHANGED <<pc, threw, imageLoads, imageFiles, embeds, storyChain,
                           inFlight>>
       ELSE IF IsPlaceholder(fullUrl)
       THEN \* lines 106-110, 178-181: placeholder skipped
            /\ imgLog' = imgLog \cup {[at |-> entry, what |-> "placeholder"]}
            /\ processedImages' = processedImages \cup {filename}
            /\ imgIdx' = imgIdx + 1
            /\ UNCHANGED <<pc, threw, imageLoads, imageFiles, embeds, storyChain,
                           inFlight>>
       ELSE \E a \in ImageAnswers :
            LET err == ImageError(a, cfg.embedImages)
                transcodeFailed == a.net = "ok" /\ cfg.convertToWebp /\ ~a.transcodeOk
                what == IF a.net # "ok" THEN "load_failed"
                        ELSE IF err = "write" THEN "write_failed"
                        ELSE IF transcodeFailed THEN "done_unconverted"
                        ELSE "done"
                stored == a.net = "ok" /\ err = "none"
            IN
            /\ ImageRequest(fullUrl) \in inFlight
            /\ inFlight' = Awaited(inFlight, ImageRequest(fullUrl))
            /\ imageLoads' = CountLoad(imageLoads, fullUrl)
            /\ imgLog' = imgLog \cup {[at |-> entry, what |-> what]}
            /\ imageFiles' =
                 IF stored /\ ~cfg.embedImages
                 THEN {f \in imageFiles :
                          f.path # FilePath(fullUrl, CurStory.title, imgIdx,
                                            cfg.convertToWebp)}
                      \cup {[path |-> FilePath(fullUrl, CurStory.title, imgIdx,
                                               cfg.convertToWebp),
                             bytes |-> Bytes(fullUrl, cfg.convertToWebp,
                                             a.transcodeOk)]}
                 ELSE imageFiles
            /\ embeds' =
                 IF stored /\ cfg.embedImages
                 THEN embeds \cup {[url |-> fullUrl,
                                    dataUrl |-> DataUrl(fullUrl, cfg.convertToWebp,
                                                        a.transcodeOk)]}
                 ELSE embeds
            /\ storyChain' =
                 IF stored /\ cfg.embedImages
                 THEN [storyChain EXCEPT ![chapIdx + 1].content =
                          EmbedInContent(@, imageUrl,
                              DataUrl(fullUrl, cfg.convertToWebp, a.transcodeOk))]
                 ELSE storyChain
            /\ IF err = "none" \/ ImageErrorHandledBy = "inner"
               THEN \* returned normally: line 66
                    /\ processedImages' = processedImages \cup {filename}
                    /\ imgIdx' = imgIdx + 1
                    /\ UNCHANGED <<pc, threw>>
               ELSE IF ImageErrorHandledBy = "outer"
               THEN \* caught at line 67
                    /\ imgIdx' = imgIdx + 1
                    /\ UNCHANGED <<pc, threw, processedImages>>
               ELSE /\ pc' = "finally"
                    /\ threw' = "image"
                    /\ UNCHANGED <<imgIdx, processedImages>>
    /\ UNCHANGED <<siteParent, siteBody, siteStatus, storyUrl, currentUrl, visitedUrls,
                   stories, cycleLogged, pageLoads, fromFetcher, exporter,
                   chapIdx, outFiles>>
    /\ UNCHANGED cliVars

\* processImages lines 45-47 and the end of its loop: return to downloadStory
ProcessImagesReturn ==
    /\ pc = "images"
    /\ imgIdx = Len(CurStory.images)
    /\ pc' = "save"
    /\ UNCHANGED <<threw, walkVars, exportVars, cliVars>>

\* write (or overwrite) the file f.name
WriteFile(files, f) == {g \in files : g.name # f.name} \cup {f}

\* cli.ts line 220 with saveStory (329-337), saveStoryAsMarkdown (339-368) and
\* collectChapter (442-465); then the loop of lines 210-221 goes on with the
\* next chapter.  Writing the chapter file may fail, which throws.
SaveStory ==
    /\ pc = "save"
    /\ LET story == CurStory
           markdown == convertHtmlToMarkdown(story.content,
                           exporter.embedImages, exporter.convertToWebp)
           more == chapIdx + 1 < Len(storyChain)
       IN
       \E writeOk \in BOOLEAN :
          /\ writeOk \/ (~exporter.jsonFile /\ ~exporter.singleFile)
          /\ IF exporter.jsonFile
             THEN /\ exporter' = [exporter EXCEPT !.chapters =
                        Append(@, CollectedChapter(story, exporter.embedImages,
                                                   exporter.convertToWebp))]
                  /\ UNCHANGED outFiles
             ELSE IF exporter.singleFile
             THEN /\ exporter' = [exporter EXCEPT !.combinedStories =
                        Append(@, [story |-> story, index |-> chapIdx])]
                  /\ UNCHANGED outFiles
             ELSE /\ outFiles' =
                        IF writeOk
                        THEN WriteFile(outFiles,
                                [kind |-> "chapter",
                                 name |-> ChapterFileName(chapIdx, story.title),
                                 title |-> story.title,
                                 author |-> ChapterAuthor(story.content),
                                 url |-> story.url,
                                 markdown |-> markdown])
                        ELSE outFiles
                  /\ UNCHANGED exporter
          /\ IF ~writeOk
             THEN /\ pc' = "finally"
                  /\ threw' = "export"
                  /\ UNCHANGED <<chapIdx, imgIdx, processedImages>>
             ELSE /\ chapIdx' = chapIdx + 1
                  /\ imgIdx' = 0
                  /\ processedImages' = {}
                  /\ pc' = IF more THEN "images" ELSE "finalize"
                  /\ UNCHANGED threw
    /\ UNCHANGED <<walkVars, fromFetcher, imageLoads, imageFiles, embeds, imgLog>>
    /\ UNCHANGED cliVars

\* finalizeSave (370-378) with saveCombinedStoryAsMarkdown (380-440) and
\* saveStoryAsJson / buildChapterTree (467-495)
FinalizeSave ==
    /\ pc = "finalize"
    /\ LET combined == exporter.combinedStories
           doCombined == exporter.singleFile /\ combined # <<>>
           doJson == exporter.jsonFile /\ exporter.chapters # <<>>
           combinedFile ==
              [kind |-> "combined",
               name |-> sanitizeFilename(combined[1].story.title)
                           \o <<"_","c","o","m","p","l","e","t","e",".","m","d">>,
               title |-> combined[1].story.title,
               authors |-> AllAuthors(combined, Len(combined)),
               count |-> Len(combined),
               urls |-> [k \in 1..Len(combined) |-> combined[k].story.url],
               sections |-> [k \in 1..Len(combined) |->
                              [number |-> combined[k].index + 1,
                               title |-> combined[k].story.title,
                               url |-> combined[k].story.url,
                               markdown |-> convertHtmlToMarkdown(
                                               combined[k].story.content,
                                               exporter.embedImages,
                                               exporter.convertToWebp),
                               separator |-> SeparatorAfter(combined[k].index,
                                                            Len(combined))]]]
           jsonFile ==
              [kind |-> "json",
               name |-> sanitizeFilename(exporter.chapters[1].title)
                           \o <<"_","c","h","a","p","t","e","r","s",".","j","s","o","n">>,
               data |-> <<ChapterTree(exporter.chapters, 1)>>]
       IN
       \E writeOk \in BOOLEAN :
          /\ writeOk \/ doCombined \/ doJson
          /\ IF writeOk
             THEN /\ outFiles' =
                       LET afterCombined ==
                              IF doCombined THEN WriteFile(outFiles, combinedFile)
                              ELSE outFiles
                       IN  IF doJson THEN WriteFile(afterCombined, jsonFile)
                           ELSE afterCombined
                  /\ UNCHANGED threw
             ELSE /\ threw' = "export"
                  /\ UNCHANGED outFiles
          /\ pc' = "finally"
    /\ UNCHANGED <<walkVars, fromFetcher, exporter, chapIdx, imgIdx,
                   processedImages, imageLoads, imageFiles, embeds, imgLog>>
    /\ UNCHANGED cliVars

\* ------------------------------------------------------------------------
\* auth.ts and cli.ts
\* ------------------------------------------------------------------------

\* Date.now() of the run
Now == 2 * SESSION_MAX_AGE

\* the command lines: every flag present or absent
ArgvSpace ==
    [url : BOOLEAN, cookie : BOOLEAN, userpass : BOOLEAN, test : BOOLEAN,
     testCookies : BOOLEAN, clearSession : BOOLEAN, noPuppeteer : BOOLEAN,
     noWebp : BOOLEAN, embedImages : BOOLEAN, singleFile : BOOLEAN,
     jsonFile : BOOLEAN]

\* a plain download: a URL and no option
DefaultArgv ==
    [url |-> TRUE, cookie |-> FALSE, userpass |-> FALSE, test |-> FALSE,
     testCookies |-> FALSE, clearSession |-> FALSE, noPuppeteer |-> FALSE,
     noWebp |-> FALSE, embedImages |-> FALSE, singleFile |-> FALSE,
     jsonFile |-> FALSE]

\* the session file: whether it exists, whether its text is JSON, and the
\* SessionData it then holds
NoSessionFile == [exists |-> FALSE, parses |-> FALSE, cookies |-> "", timestamp |-> 0]
SavedSession(cookies, timestamp) ==
    [exists |-> TRUE, parses |-> TRUE, cookies |-> cookies, timestamp |-> timestamp]
CorruptSessionFile ==
    [exists |-> TRUE, parses |-> FALSE, cookies |-> "", timestamp |-> 0]

\* the state of the process-level variables inside downloadStory, after the
\* browser was started, for the specifications of single components
InsideDownload(a) ==
    /\ argv = a
    /\ exitCode = -1
    /\ exitMsg = "none"
    /\ ioLog = {"browser_launch"}
    /\ sessionFile = NoSessionFile
    /\ credentials = [sessionCookie |-> "none", username |-> FALSE]
    /\ browser = "headless"
    /\ openBrowsers = 1
    /\ sessionValid = FALSE

\* process.exit(code), after printing msg
Exit(code, msg) ==
    /\ pc' = "exited"
    /\ exitCode' = code
    /\ exitMsg' = msg

\* cleanupSessionFile / clearSession: fs.unlink(sessionFile)
Unlink(f) == NoSessionFile

\* loadSavedSession lines 189-202: the file parses and the saved session is
\* young enough and has cookies
SessionRestorableAtLimit(f) ==
    /\ f.parses
    /\ Now - f.timestamp <= SESSION_MAX_AGE
    /\ f.cookies # ""
SessionRestorable(f) ==
    /\ f.parses
    /\ Now - f.timestamp < SESSION_MAX_AGE
    /\ f.cookies # ""

\* cliEntry lines 348-356: --clear-session
CliClearSession ==
    /\ pc = "cli"
    /\ IF argv.clearSession
       THEN /\ sessionFile' = Unlink(sessionFile)
            /\ ioLog' = ioLog \cup {"unlink_session"}
            /\ IF ~argv.url
               THEN Exit(0, "none")
               ELSE /\ pc' = "cli_test"
                    /\ UNCHANGED <<exitCode, exitMsg>>
       ELSE /\ pc' = "cli_test"
            /\ UNCHANGED <<sessionFile, ioLog, exitCode, exitMsg>>
    /\ UNCHANGED <<threw, walkVars, exportVars, argv, credentials, browser,
                   openBrowsers, sessionValid>>

\* cliEntry lines 358-362: --test, with ContentFetcher.testConnectivity; the
\* request either is answered or throws (caught at line 469)
CliTest ==
    /\ pc = "cli_test"
    /\ IF argv.test
       THEN /\ ioLog' = ioLog \cup {"net_test"}
            /\ \E ok \in BOOLEAN :
                  IF ok THEN Exit(0, "none") ELSE Exit(1, "error")
       ELSE /\ pc' = "cli_test_cookies"
            /\ UNCHANGED <<ioLog, exitCode, exitMsg>>
    /\ UNCHANGED <<threw, walkVars, exportVars, argv, sessionFile, credentials,
                   browser, openBrowsers, sessionValid>>

\* cliEntry lines 364-376: --test-cookies, with ContentFetcher.testCookies
CliTestCookies ==
    /\ pc = "cli_test_cookies"
    /\ IF argv.testCookies
       THEN IF ~argv.cookie
            THEN /\ Exit(1, "cookie_required")
                 /\ UNCHANGED ioLog
            ELSE /\ ioLog' = ioLog \cup {"net_test_cookies"}
                 /\ \E ok \in BOOLEAN :
                       IF ok THEN Exit(0, "none") ELSE Exit(1, "error")
       ELSE /\ pc' = "cli_configure"
            /\ UNCHANGED <<ioLog, exitCode, exitMsg>>
    /\ UNCHANGED <<threw, walkVars, exportVars, argv, sessionFile, credentials,
                   browser, openBrowsers, sessionValid>>

\* cliEntry lines 378-468: the checks of the command line, the configuration
\* and the construction of the downloader (lines 29-42)
CliConfigure ==
    /\ pc = "cli_configure"
    /\ LET creds == [sessionCookie |-> IF argv.cookie THEN "user" ELSE "none",
                     username |-> argv.userpass]
       IN
       IF ~argv.url /\ ~argv.test /\ ~argv.testCookies /\ ~argv.clearSession
       THEN /\ Exit(1, "url_required")
            /\ UNCHANGED <<credentials, exporter>>
       ELSE IF argv.singleFile /\ argv.jsonFile
       THEN /\ Exit(1, "mutually_exclusive")
            /\ UNCHANGED <<credentials, exporter>>
       ELSE IF creds.username /\ creds.sessionCookie = "none"
       THEN /\ Exit(1, "userpass_unsupported")
            /\ UNCHANGED <<credentials, exporter>>
       ELSE /\ credentials' = creds
            /\ exporter' = NewExporter(~argv.noWebp, argv.embedImages,
                                       argv.singleFile, argv.jsonFile, FALSE)
            /\ IF argv.url
               THEN /\ pc' = "download"
                    /\ UNCHANGED <<exitCode, exitMsg>>
               ELSE Exit(0, "none")
    /\ UNCHANGED <<threw, walkVars, fromFetcher, chapIdx, imgIdx,
                   processedImages, imageLoads, imageFiles, embeds, imgLog,
                   outFiles, argv, ioLog, sessionFile, browser, openBrowsers,
                   sessionValid>>

\* downloadStory lines 52-54 with loadSavedSession (186-217)
DlLoadSavedSession ==
    /\ pc = "download"
    /\ IF argv.noPuppeteer
       THEN /\ pc' = "fetch_target"
            /\ UNCHANGED <<credentials, sessionFile, ioLog>>
       ELSE /\ pc' = "launch"
            /\ IF ~sessionFile.exists
               THEN UNCHANGED <<credentials, sessionFile, ioLog>>
               ELSE /\ ioLog' = ioLog \cup {"read_session"}
                    /\ IF SessionRestorable(sessionFile)
                       THEN /\ credentials' = [credentials EXCEPT
                                   !.sessionCookie = sessionFile.cookies]
                            /\ UNCHANGED sessionFile
                       ELSE /\ sessionFile' = Unlink(sessionFile)
                            /\ UNCHANGED credentials
    /\ UNCHANGED <<threw, walkVars, exportVars, argv, exitCode, exitMsg,
                   browser, openBrowsers, sessionValid>>

\* downloadStory lines 56-58 with initializeBrowser (28-45)
DlInitializeBrowser ==
    /\ pc = "launch"
    /\ browser' = "headless"
    /\ openBrowsers' = openBrowsers + 1
    /\ ioLog' = ioLog \cup {"browser_launch"}
    /\ pc' = "setup_auth"
    /\ UNCHANGED <<threw, walkVars, exportVars, argv, exitCode, exitMsg,
                   sessionFile, credentials, sessionValid>>

\* setupAuthenticationAfterBrowser line 228: the cookie that was found invalid
\* is taken out of the credentials
InvalidatedCredentialsKept(c) == c
InvalidatedCredentials(c) == [c EXCEPT !.sessionCookie = "none"]

\* downloadStory lines 60-73 with setupAuthenticationAfterBrowser (219-238):
\* a configured cookie is installed and checked against the site
DlSetupAuthentication ==
    /\ pc = "setup_auth"
    /\ IF credentials.sessionCookie # "none"
       THEN /\ ioLog' = ioLog \cup {"net_auth"}
            /\ \E isValid \in BOOLEAN :
                  /\ sessionValid' = isValid
                  /\ IF isValid
                     THEN UNCHANGED <<credentials, sessionFile>>
                     ELSE /\ credentials' = InvalidatedCredentials(credentials)
                          /\ sessionFile' = Unlink(sessionFile)
       ELSE /\ sessionValid' = FALSE
            /\ UNCHANGED <<ioLog, credentials, sessionFile>>
    /\ exporter' = NewExporter(exporter.convertToWebp, exporter.embedImages,
                               exporter.singleFile, exporter.jsonFile, TRUE)
    /\ pc' = "auth_prompt"
    /\ UNCHANGED <<threw, walkVars, fromFetcher, chapIdx, imgIdx,
                   processedImages, imageLoads, imageFiles, embeds, imgLog,
                   outFiles, argv, exitCode, exitMsg, browser, openBrowsers>>

\* lines 101-125 and 152-176: the headless browser is closed, a visible one
\* launched, and promptUserLogin (108-162) run; a successful login stores the
\* cookies of the page in the credentials and saves the session (164-184)
InteractiveLogin ==
    /\ browser' = "visible"
    /\ openBrowsers' = (IF browser # "none" THEN openBrowsers - 1
                        ELSE openBrowsers) + 1
    /\ ioLog' = ioLog \cup {"browser_launch", "net_login"}
    /\ \E loginSuccess \in BOOLEAN :
          IF loginSuccess
          THEN /\ credentials' = [credentials EXCEPT !.sessionCookie = "login"]
               /\ sessionFile' = SavedSession("login", Now)
          ELSE UNCHANGED <<credentials, sessionFile>>

\* downloadStory lines 75-179: the authentication prompts
DlAuthPrompt ==
    /\ pc = "auth_prompt"
    /\ IF ~sessionValid /\ credentials.sessionCookie = "none"
          /\ ~credentials.username
       THEN \E interactive \in {"undefined", "yes", "no"} :
               CASE interactive = "undefined" ->
                       \* line 97: sys.exit(1) ends the process at once
                       /\ Exit(1, "canceled")
                       /\ UNCHANGED <<browser, openBrowsers, ioLog, credentials,
                                      sessionFile>>
                 [] interactive = "yes" ->
                       /\ InteractiveLogin
                       /\ pc' = "fetch_target"
                       /\ UNCHANGED <<exitCode, exitMsg>>
                 [] OTHER ->
                       /\ pc' = "fetch_target"
                       /\ UNCHANGED <<browser, openBrowsers, ioLog, credentials,
                                      sessionFile, exitCode, exitMsg>>
       ELSE IF ~sessionValid /\ credentials.sessionCookie # "none"
       THEN \E response \in {"y", "n"} :
               /\ IF response = "y"
                  THEN InteractiveLogin
                  ELSE UNCHANGED <<browser, openBrowsers, ioLog, credentials,
                                   sessionFile>>
               /\ pc' = "fetch_target"
               /\ UNCHANGED <<exitCode, exitMsg>>
       ELSE /\ pc' = "fetch_target"
            /\ UNCHANGED <<browser, openBrowsers, ioLog, credentials,
                           sessionFile, exitCode, exitMsg>>
    /\ UNCHANGED <<threw, walkVars, exportVars, argv, sessionValid>>

\* downloadStory lines 181-182: the target chapter is fetched to name the
\* output directory, and the exporter is rebuilt for that directory; a failed
\* page load throws
DlFetchTargetRequest ==
    /\ pc = "fetch_target"
    /\ FetchRequest(storyUrl) \notin inFlight
    /\ inFlight' = inFlight \cup {FetchRequest(storyUrl)}
    /\ UNCHANGED <<pc, threw, siteParent, siteBody, siteStatus, storyUrl,
                   currentUrl, visitedUrls, stories, cycleLogged, storyChain,
                   pageLoads>>
    /\ UNCHANGED <<exportVars, cliVars>>

\* downloadStory lines 182-194, once the request of line 182 has settled
DlFetchTarget ==
    /\ pc = "fetch_target"
    /\ FetchRequest(storyUrl) \in inFlight
    /\ inFlight' = Awaited(inFlight, FetchRequest(storyUrl))
    /\ pageLoads' = [pageLoads EXCEPT ![storyUrl] = @ + 1]
    /\ ioLog' = ioLog \cup {"net_page"}
    /\ \E answer \in PageAnswers :
          IF ~FetchThrows(UsesBrowser, answer, siteStatus[storyUrl])
          THEN /\ exporter' = NewExporter(exporter.convertToWebp,
                                  exporter.embedImages, exporter.singleFile,
                                  exporter.jsonFile, browser # "none")
               /\ pc' = "mkdir"
               /\ UNCHANGED threw
          ELSE /\ pc' = "finally"
               /\ threw' = "fetch"
               /\ UNCHANGED exporter
    /\ UNCHANGED <<siteParent, siteBody, siteStatus, storyUrl, currentUrl, visitedUrls,
                   stories, cycleLogged, storyChain, fromFetcher, chapIdx,
                   imgIdx, processedImages, imageLoads, imageFiles, embeds,
                   imgLog, outFiles, argv, exitCode, exitMsg, sessionFile,
                   credentials, browser, openBrowsers, sessionValid>>

\* downloadStory lines 196-204: ensureDirectories, then the call of
\* getStoryChain up to its loop (fetcher.ts lines 23-25)
DlEnsureDirectories ==
    /\ pc = "mkdir"
    /\ ioLog' = ioLog \cup {"mkdir"}
    /\ stories' = <<>>
    /\ visitedUrls' = {}
    /\ currentUrl' = storyUrl
    /\ pc' = "walk"
    /\ UNCHANGED <<threw, siteParent, siteBody, siteStatus, storyUrl, cycleLogged,
                   storyChain, pageLoads, inFlight, exportVars, argv, exitCode,
                   exitMsg, sessionFile, credentials, browser, openBrowsers,
                   sessionValid>>

\* downloadStory lines 206-211: the loop over the chain starts
DlBeginExport ==
    /\ pc = "chain"
    /\ chapIdx' = 0
    /\ imgIdx' = 0
    /\ processedImages' = {}
    /\ pc' = IF Len(storyChain) > 0 THEN "images" ELSE "finalize"
    /\ UNCHANGED <<threw, walkVars, fromFetcher, exporter, imageLoads,
                   imageFiles, embeds, imgLog, outFiles, cliVars>>

\* downloadStory line 232: the status the finally block exits with
FinallyExitCode(thrown) == 0

\* downloadStory lines 227-233: the finally block closes the browser
\* (closeBrowser, 80-87) and ends the process
DlFinally ==
    /\ pc = "finally"
    /\ browser' = "none"
    /\ openBrowsers' = IF browser # "none" THEN openBrowsers - 1 ELSE openBrowsers
    /\ Exit(FinallyExitCode(threw), "none")
    /\ UNCHANGED <<threw, walkVars, exportVars, argv, ioLog, sessionFile,
                   credentials, sessionValid>>

\* ------------------------------------------------------------------------
\* Specification of getStoryChain alone: any site, any start URL
\* ------------------------------------------------------------------------

InitWalk ==
    /\ pc = "walk"
    /\ threw = "none"
    /\ siteParent \in [Urls -> Urls \cup {None}]
    /\ siteBody = [u \in Urls |-> <<>>]
    /\ siteStatus = [u \in Urls |-> 200]
    /\ storyUrl \in Urls
    /\ currentUrl = storyUrl
    /\ visitedUrls = {}
    /\ stories = <<>>
    /\ cycleLogged = FALSE
    /\ storyChain = <<>>
    /\ pageLoads = [u \in Urls |-> 0]
    /\ inFlight = {}
    /\ fromFetcher = TRUE
    /\ exporter = NewExporter(TRUE, FALSE, FALSE, FALSE, FALSE)
    /\ chapIdx = 0
    /\ imgIdx = 0
    /\ processedImages = {}
    /\ imageLoads = <<>>
    /\ imageFiles = {}
    /\ embeds = {}
    /\ imgLog = {}
    /\ outFiles = {}
    /\ InsideDownload(DefaultArgv)

NextWalk == WalkRequest \/ WalkIterate \/ WalkReturn

SpecWalk == InitWalk /\ [][NextWalk]_vars

\* the loop is sequential code: an enabled step is eventually taken
LiveSpecWalk ==
    SpecWalk /\ WF_vars(WalkRequest) /\ WF_vars(WalkIterate) /\ WF_vars(WalkReturn)

\* the ancestors of u on the site, u first, up to the first repeated URL
RECURSIVE AncestorPath(_, _)
AncestorPath(u, seen) ==
    IF u = None \/ u \in seen THEN <<>>
    ELSE <<u>> \o AncestorPath(siteParent[u], seen \cup {u})

\* the URL at which following parent links from u stops: None, or a repeat
RECURSIVE PathEnd(_, _)
PathEnd(u, seen) ==
    IF u = None \/ u \in seen THEN u
    ELSE PathEnd(siteParent[u], seen \cup {u})

\* the parent chain of the start URL is acyclic
AcyclicFromStart == PathEnd(storyUrl, {}) = None

\* C1: when getStoryChain returns for an acyclic parent chain of length n, the
\* result has exactly n chapters, ancestor first: the last one is the chapter
\* at the start URL, the first has no parent, and each element's parentUrl is
\* the url of the element before it.
C1_AncestorFirst ==
    (pc = "chain" /\ AcyclicFromStart) =>
        /\ Len(storyChain) = Len(AncestorPath(storyUrl, {}))
        /\ storyChain[Len(storyChain)].url = storyUrl
        /\ storyChain[1].parentUrl = None
        /\ \A k \in 1..(Len(storyChain) - 1) :
              storyChain[k + 1].parentUrl = storyChain[k].url

C1_Witness ==
    /\ pc = "chain"
    /\ AcyclicFromStart
    /\ Len(storyChain) = NumUrls

\* C2: the walk terminates on every site (it returns, or a fetch throws), and
\* from a state where the current URL was already visited its next step is a
\* normal return of the chapters collected so far.
C2_Terminates ==
    /\ <>(pc \in {"chain", "finally"})
    /\ [][(pc = "walk" /\ currentUrl # None /\ currentUrl \in visitedUrls)
            => (pc' = "chain" /\ storyChain' = stories /\ threw' = "none"
                  /\ cycleLogged')]_vars

C2_Witness ==
    /\ pc = "chain"
    /\ cycleLogged
    /\ threw = "none"
    /\ Len(storyChain) >= 2

\* C3: in every state of the walk and in its result no URL occurs twice among
\* the collected chapters.
C3_NoUrlTwice ==
    /\ \A j, k \in 1..Len(stories) : stories[j].url = stories[k].url => j = k
    /\ \A j, k \in 1..Len(storyChain) :
          storyChain[j].url = storyChain[k].url => j = k

C3_Witness ==
    /\ pc = "chain"
    /\ currentUrl \in visitedUrls
    /\ Len(storyChain) = NumUrls
    /\ storyChain[1].parentUrl = storyUrl

\* ------------------------------------------------------------------------
\* Specification of fetchStoryData under getStoryChain: a chain of NumUrls
\* chapters, every status for every page, both fetch modes
\* ------------------------------------------------------------------------

\* the statuses a chapter URL is answered with
StatusCodes == {200, 401, 403, 404, 500}

InitFetch ==
    /\ pc = "walk"
    /\ threw = "none"
    /\ siteParent = [u \in Urls |-> u - 1]
    /\ siteBody = [u \in Urls |-> <<>>]
    /\ siteStatus \in [Urls -> StatusCodes]
    /\ storyUrl = NumUrls
    /\ currentUrl = storyUrl
    /\ visitedUrls = {}
    /\ stories = <<>>
    /\ cycleLogged = FALSE
    /\ storyChain = <<>>
    /\ pageLoads = [u \in Urls |-> 0]
    /\ inFlight = {}
    /\ fromFetcher = TRUE
    /\ \E usePuppeteer \in BOOLEAN :
          /\ argv = [DefaultArgv EXCEPT !.noPuppeteer = ~usePuppeteer]
          /\ browser = IF usePuppeteer THEN "headless" ELSE "none"
          /\ openBrowsers = IF usePuppeteer THEN 1 ELSE 0
          /\ ioLog = IF usePuppeteer THEN {"browser_launch"} ELSE {}
          /\ exporter = NewExporter(TRUE, FALSE, FALSE, FALSE, usePuppeteer)
    /\ chapIdx = 0
    /\ imgIdx = 0
    /\ processedImages = {}
    /\ imageLoads = <<>>
    /\ imageFiles = {}
    /\ embeds = {}
    /\ imgLog = {}
    /\ outFiles = {}
    /\ exitCode = -1
    /\ exitMsg = "none"
    /\ sessionFile = NoSessionFile
    /\ credentials = [sessionCookie |-> "none", username |-> FALSE]
    /\ sessionValid = FALSE

SpecFetch == InitFetch /\ [][NextWalk]_vars

\* C21 (as claimed): a page load that is answered with an HTTP error status
\* makes fetchStoryData throw, in browser mode and in direct HTTP mode, and no
\* chapter is collected from it.
C21_ErrorStatusThrows ==
    [][(pc = "walk" /\ FetchRequest(currentUrl) \in inFlight
          /\ ~ResponseOk(siteStatus[currentUrl]))
            => (threw' = "fetch" /\ stories' = stories)]_vars

\* ------------------------------------------------------------------------
\* Specification of the exporter alone: one chapter, any body over the sample
\* image references, any configuration, any answer of net, transcoder and disk
\* ------------------------------------------------------------------------

\* <img> src attributes as they occur in chapter bodies
SrcAbsPng == BASE_URL \o <<"/","i","/","a",".","p","n","g">>
SrcAbsPngOtherDir == BASE_URL \o <<"/","j","/","a",".","p","n","g">>
SrcRelJpg == <<"/","i","/","b",".","j","p","g">>
SrcNoBasename == BASE_URL \o <<"/">>
SrcUpperWebp == BASE_URL \o <<"/","i","/","c",".","W","E","B","P">>
SrcPlaceholder == BASE_URL \o <<"/","i","/">> \o DEFAULT_JPG

SampleSrcs ==
    {SrcAbsPng, SrcAbsPngOtherDir, SrcRelJpg, SrcNoBasename, SrcUpperWebp,
     SrcPlaceholder}

\* the bodies with at most n images
BodiesUpTo(n) == UNION {[1..k -> SampleSrcs] : k \in 0..n}

InitImages ==
    /\ pc = "images"
    /\ threw = "none"
    /\ siteParent = [u \in Urls |-> None]
    /\ siteBody \in {[u \in Urls |-> IF u = 1 THEN ImagesBody(b) ELSE <<>>] :
                        b \in BodiesUpTo(MaxImgs)}
    /\ siteStatus = [u \in Urls |-> 200]
    /\ storyUrl = 1
    /\ currentUrl = None
    /\ visitedUrls = {1}
    /\ fromFetcher \in BOOLEAN
    /\ stories = <<IF fromFetcher THEN fetchStoryData(1)
                   ELSE [fetchStoryData(1) EXCEPT
                            !.images = ImgSrcs(CheerioLoad(siteBody[1]))]>>
    /\ cycleLogged = FALSE
    /\ storyChain = stories
    /\ pageLoads = [u \in Urls |-> IF u = 1 THEN 1 ELSE 0]
    /\ inFlight = {}
    /\ \E webp, embed, page \in BOOLEAN :
          exporter = NewExporter(webp, embed, FALSE, FALSE, page)
    /\ chapIdx = 0
    /\ imgIdx = 0
    /\ processedImages = {}
    /\ imageLoads = <<>>
    /\ imageFiles = {}
    /\ embeds = {}
    /\ imgLog = {}
    /\ outFiles = {}
    /\ InsideDownload(DefaultArgv)

NextImages ==
    \/ ProcessImagesRequest \/ ProcessImagesStep \/ ProcessImagesReturn
    \/ SaveStory \/ FinalizeSave

SpecImages == InitImages /\ [][NextImages]_vars

\* ------------------------------------------------------------------------
\* Specification of cliEntry: every command line, every session file, a site
\* of one chapter
\* ------------------------------------------------------------------------

\* the session files a run may find
SessionFiles ==
    {NoSessionFile, CorruptSessionFile, SavedSession("", Now),
     SavedSession("saved", Now - SESSION_MAX_AGE + 1),
     SavedSession("saved", Now - SESSION_MAX_AGE)}

\* the state when cliEntry is called on command line a, with session file f,
\* for a site with links parent and bodies body
ProcessStart(a, f, parent, body, start) ==
    /\ pc = "cli"
    /\ threw = "none"
    /\ siteParent = parent
    /\ siteBody = body
    /\ siteStatus = [u \in Urls |-> 200]
    /\ storyUrl = start
    /\ currentUrl = None
    /\ visitedUrls = {}
    /\ stories = <<>>
    /\ cycleLogged = FALSE
    /\ storyChain = <<>>
    /\ pageLoads = [u \in Urls |-> 0]
    /\ inFlight = {}
    /\ fromFetcher = TRUE
    /\ exporter = NewExporter(TRUE, FALSE, FALSE, FALSE, FALSE)
    /\ chapIdx = 0
    /\ imgIdx = 0
    /\ processedImages = {}
    /\ imageLoads = <<>>
    /\ imageFiles = {}
    /\ embeds = {}
    /\ imgLog = {}
    /\ outFiles = {}
    /\ argv = a
    /\ exitCode = -1
    /\ exitMsg = "none"
    /\ ioLog = {}
    /\ sessionFile = f
    /\ credentials = [sessionCookie |-> "none", username |-> FALSE]
    /\ browser = "none"
    /\ openBrowsers = 0
    /\ sessionValid = FALSE

InitCli ==
    \E a \in ArgvSpace, f \in SessionFiles :
        ProcessStart(a, f, [u \in Urls |-> None],
                     [u \in Urls |-> IF u = 1 THEN ImgTag(SrcAbsPng) ELSE <<>>], 1)

Next ==
    \/ CliClearSession \/ CliTest \/ CliTestCookies \/ CliConfigure
    \/ DlLoadSavedSession \/ DlInitializeBrowser \/ DlSetupAuthentication
    \/ DlAuthPrompt \/ DlFetchTargetRequest \/ DlFetchTarget
    \/ DlEnsureDirectories
    \/ WalkRequest \/ WalkIterate \/ WalkReturn
    \/ DlBeginExport \/ ProcessImagesRequest \/ ProcessImagesStep
    \/ ProcessImagesReturn \/ SaveStory
    \/ FinalizeSave \/ DlFinally

SpecCli == InitCli /\ [][Next]_vars

\* ------------------------------------------------------------------------
\* Specification of a download run: the command lines that ask for a download,
\* no saved session, every site of RunUrls chapters
\* ------------------------------------------------------------------------

\* number of chapter pages of the site in the specification of a run
RunUrls == 2

\* the body of chapter u on the site of a run
RunBody(u) == IF u = 1 THEN ImgTag(SrcAbsPng) \o ImgTag(SrcRelJpg) ELSE <<>>

DownloadArgvs ==
    {a \in ArgvSpace : a.url /\ ~a.test /\ ~a.testCookies /\ ~a.userpass
                         /\ ~a.clearSession}

RunSites ==
    {parent \in [Urls -> Urls \cup {None}] :
        \A u \in Urls : IF u <= RunUrls THEN parent[u] <= RunUrls
                        ELSE parent[u] = None}

Init ==
    \E a \in DownloadArgvs, parent \in RunSites, start \in 1..RunUrls :
        ProcessStart(a, NoSessionFile, parent, [u \in Urls |-> RunBody(u)], start)

Spec == Init /\ [][Next]_vars

\* number of entries of the list that equal x
CountIn(list, x) == Cardinality({k \in 1..Len(list) : list[k] = x})

\* number of loads of fullUrl so far
LoadsOf(fullUrl) ==
    IF fullUrl \in DOMAIN imageLoads THEN imageLoads[fullUrl] ELSE 0

\* the <img> references of the chapter body that a file or data URL written
\* for fullUrl stands for
BodySrcsOf(story, fullUrl) ==
    LET srcs == ImgSrcs(CheerioLoad(story.content))
    IN  {srcs[k] : k \in {j \in 1..Len(srcs) :
                            makeAbsoluteUrl(srcs[j]) = fullUrl}}

\* C6: an image URL containing default.jpg is never loaded by the localizer,
\* never written to the images directory and never embedded as a data URL.
C6_PlaceholderNeverLocalized ==
    /\ \A u \in DOMAIN imageLoads : ~Includes(u, DEFAULT_JPG)
    /\ \A f \in imageFiles : ~Includes(f.bytes.of, DEFAULT_JPG)
    /\ \A e \in embeds : ~Includes(e.url, DEFAULT_JPG)

C6_Witness ==
    /\ pc = "save"
    /\ exporter.page
    /\ \E k \in 1..Len(CurStory.images) : Includes(CurStory.images[k], DEFAULT_JPG)
    /\ \E e \in imgLog : e.what = "placeholder"
    /\ \E e \in imgLog : e.what = "done"

\* C7 (as claimed): an image URL that occurs twice in the image list of a
\* chapter built by fetchStoryData is loaded at most once.
C7_SameUrlLoadedOnce ==
    fromFetcher =>
        \A k \in 1..Len(storyChain) :
            \A u \in {storyChain[k].images[j] : j \in 1..Len(storyChain[k].images)} :
                CountIn(storyChain[k].images, u) >= 2 => LoadsOf(FullUrl(u)) <= 1

\* C9 (as claimed): with conversion enabled, a file written after a failed
\* conversion (it holds the original bytes) has the original extension of the
\* image, not the extension of the converted name.
C9_FallbackKeepsExtension ==
    (fromFetcher /\ exporter.convertToWebp) =>
        \A f \in imageFiles :
            f.bytes.enc = "orig" =>
                PathExtname(f.path) = PathExtname(UrlPathname(f.bytes.of))

\* C10 (as claimed): in file mode the reference the renderer emits for an
\* <img> of the body is the path of the file the localizer wrote for it.
C10_RefIsWrittenPath ==
    (fromFetcher /\ ~exporter.embedImages) =>
        \A f \in imageFiles :
            \A src \in BodySrcsOf(stories[1], f.bytes.of) :
                RenderImageRef(src, FALSE, exporter.convertToWebp) = f.path

\* C11 (as claimed): in embed mode, once the bytes of an image of the chapter
\* were fetched, no <img> of the chapter body refers to that image by its URL
\* any more, whether the src was written as an absolute or a relative URL.
C11_EveryOccurrenceEmbedded ==
    (fromFetcher /\ exporter.embedImages) =>
        \A e \in embeds : BodySrcsOf(storyChain[1], e.url) = {}

\* ------------------------------------------------------------------------
\* Specification of the renderer and the layouts: one chapter whose body is
\* made of the sample blocks, every layout, no browser page
\* ------------------------------------------------------------------------

\* longest body, in blocks, of the renderer specification
MaxBlocks == 2

BlockSpace == <<" ", "\n">>
BlockParagraph == <<"<p>", "a", " ", "\n", " ", "b", "</p>">>
BlockEntities == <<"<p>">> \o ENT_QUOT \o ENT_AMP \o ENT_LT \o ENT_GT \o <<"</p>">>
BlockEscapedEntity == <<"<p>">> \o ENT_AMP \o <<"l", "t", ";", "</p>">>
BlockMarkup == <<"<p>", "<b>", "c", "</b>", "<br>", "<i>", "d", "</i>", "</p>">>
BlockParagraphImage ==
    <<"<p>">> \o ImgTagAlt(SrcAbsPng, <<"x">>) \o <<" ", "T", "h", "</p>">>
BlockImage == ImgTag(SrcUpperWebp)
BlockHeader == <<"<h1>", "h", "</h1>">>
BlockList == <<"<ul>", "<li>", "u", "</li>", "</ul>">>
BlockOrderedList == <<"<ol>", "<li>", "o", "</li>", "</ol>">>
BlockAuthor == <<A_OPEN>> \o USER_PATH \o <<"1", ATTR_END, "a", "n", "n", "</a>">>
BlockOtherAuthor == <<A_OPEN>> \o USER_PATH \o <<"2", ATTR_END, "b", "o", "</a>">>
BlockLink == <<A_OPEN, "/", "x", ATTR_END, "z", "</a>">>

SampleBlocks ==
    {BlockSpace, BlockParagraph, BlockEntities, BlockEscapedEntity, BlockMarkup,
     BlockParagraphImage, BlockImage, BlockHeader, BlockList, BlockOrderedList,
     BlockAuthor, BlockOtherAuthor, BlockLink}

\* the bodies of at most n blocks
RECURSIVE BodiesOfBlocks(_)
BodiesOfBlocks(n) ==
    IF n = 0 THEN {<<>>}
    ELSE BodiesOfBlocks(n - 1)
            \cup {b \o c : b \in BodiesOfBlocks(n - 1), c \in SampleBlocks}

InitRender ==
    /\ pc = "images"
    /\ threw = "none"
    /\ siteParent = [u \in Urls |-> None]
    /\ siteBody \in {[u \in Urls |-> IF u = 1 THEN b ELSE <<>>] :
                        b \in BodiesOfBlocks(MaxBlocks)}
    /\ siteStatus = [u \in Urls |-> 200]
    /\ storyUrl = 1
    /\ currentUrl = None
    /\ visitedUrls = {1}
    /\ fromFetcher = TRUE
    /\ stories = <<fetchStoryData(1)>>
    /\ cycleLogged = FALSE
    /\ storyChain = stories
    /\ pageLoads = [u \in Urls |-> IF u = 1 THEN 1 ELSE 0]
    /\ inFlight = {}
    /\ \E webp, single, json \in BOOLEAN :
          /\ ~(single /\ json)
          /\ exporter = NewExporter(webp, FALSE, single, json, FALSE)
    /\ chapIdx = 0
    /\ imgIdx = 0
    /\ processedImages = {}
    /\ imageLoads = <<>>
    /\ imageFiles = {}
    /\ embeds = {}
    /\ imgLog = {}
    /\ outFiles = {}
    /\ InsideDownload(DefaultArgv)

\* without a browser page no image is requested
NextRender == ProcessImagesStep \/ ProcessImagesReturn \/ SaveStory \/ FinalizeSave

SpecRender == InitRender /\ [][NextRender]_vars

\* the rendered Markdown of the first chapter in the files written
OutputMarkdowns ==
    {f.markdown : f \in {g \in outFiles : g.kind = "chapter"}}
        \cup {f.sections[1].markdown : f \in {g \in outFiles : g.kind = "combined"}}
        \cup {f.data[1].content : f \in {g \in outFiles : g.kind = "json"}}

\* the body of the chapter, as it is handed to the renderer
Body == storyChain[1].content

\* C12: the Markdown rendered for an empty or whitespace-only body is the
\* empty string, in every layout.
C12_BlankBodyRendersEmpty ==
    Trim(Body) = <<>> => \A m \in OutputMarkdowns : m = <<>>

C12_Witness ==
    /\ Body # <<>>
    /\ Trim(Body) = <<>>
    /\ <<>> \in OutputMarkdowns

\* the text of a paragraph: tags stripped, the character references decoded
\* once (by the parser), whitespace collapsed
ParagraphText(p) == Trim(CollapseWhitespace(CheerioText(BrToSpace(p))))

\* the texts joined, with one blank line between two of them
RECURSIVE JoinParagraphs(_)
JoinParagraphs(texts) ==
    IF texts = <<>> THEN <<>>
    ELSE IF Len(texts) = 1 THEN texts[1]
    ELSE texts[1] \o <<"\n", "\n">> \o JoinParagraphs(Tail(texts))

\* C13 (as claimed): for a body with paragraphs (and no image), the rendered
\* Markdown is the texts of its non-empty paragraphs, each with its tags
\* stripped, its entities unescaped exactly once and its whitespace collapsed,
\* one blank line between consecutive paragraphs.
C13_ParagraphsUnescapedOnce ==
    LET paragraphs == Paragraphs(InlineMarkdown(Body, exporter.embedImages,
                                                exporter.convertToWebp))
        texts == SelectSeq([k \in 1..Len(paragraphs) |->
                               ParagraphText(paragraphs[k])],
                           LAMBDA text : text # <<>>)
    IN  (texts # <<>> /\ ImgElements(Body) = <<>>) =>
            \A m \in OutputMarkdowns : m = JoinParagraphs(texts)

\* C14 (as claimed): every <img> of the body with a non-empty src is in the
\* rendered Markdown as ![alt](ref), wherever it sits in the body.
C14_EveryImageRendered ==
    LET images == ImgElements(CheerioLoad(Body))
    IN  \A k \in 1..Len(images) :
            images[k].src # <<>> =>
                \A m \in OutputMarkdowns :
                    Includes(m, ImageMarkdown(images[k].alt,
                                    RenderImageRef(images[k].src,
                                                   exporter.embedImages,
                                                   exporter.convertToWebp)))

\* C15 (as claimed): the text of every header and of every item of an ordered
\* or unordered list of the body is in the rendered Markdown.
C15_HeaderAndListTextRendered ==
    LET dom == CheerioLoad(Body)
        elements == ElementContents(dom, "<h1>", "</h1>")
                        \o ElementContents(dom, "<li>", "</li>")
    IN  \A k \in 1..Len(elements) :
            \A m \in OutputMarkdowns :
                Includes(m, ParagraphText(elements[k]))

\* the authors the written files name for the first chapter
OutputAuthors ==
    {IF f.author = <<>> THEN {} ELSE {f.author} :
        f \in {g \in outFiles : g.kind = "chapter"}}
      \cup {{f.authors[k] : k \in 1..Len(f.authors)} :
              f \in {g \in outFiles : g.kind = "combined"}}
      \cup {IF "author" \in DOMAIN f.data[1] THEN {f.data[1].author} ELSE {} :
              f \in {g \in outFiles : g.kind = "json"}}

\* C19 (as claimed): in every layout the authors named for a chapter are at
\* most one, the text of the first anchor of its body that points to a user
\* profile and has a text, and none when there is no such anchor.
C19_AtMostOneAuthor ==
    LET anchors == UserAnchorTexts(CheerioLoad(Body))
        named == {k \in 1..Len(anchors) : anchors[k] # <<>>}
        expected == IF named = {} THEN {} ELSE {anchors[MinOf(named)]}
    IN  \A authors \in OutputAuthors : authors = expected

\* C4 (as claimed): once a chapter fetch has failed nothing else of the
\* pipeline runs, and the process ends with a non-zero exit status.
C4_FetchFailureFailsRun ==
    threw = "fetch" =>
        /\ pc \in {"finally", "exited"}
        /\ pc = "exited" => exitCode # 0

\* C5 (as claimed): with both --single-file and --json-file no I/O is ever
\* performed, and the process ends with status 1 and the message about the
\* mutually exclusive options.
C5_RejectedBeforeAnyIO ==
    (argv.singleFile /\ argv.jsonFile) =>
        /\ ioLog = {}
        /\ pc = "exited" => (exitCode = 1 /\ exitMsg = "mutually_exclusive")

\* the entries of image lists at which loading, converting or writing failed
FailedImageEntries ==
    {e \in imgLog : e.what \in {"load_failed", "write_failed", "done_unconverted"}}

\* the download ran to its end: no early exit, nothing thrown
RunCompleted ==
    /\ pc = "exited"
    /\ threw = "none"
    /\ exitMsg = "none"
    /\ Len(storyChain) > 0

\* number of chapters the written output holds
RECURSIVE TreeDepth(_)
TreeDepth(node) ==
    IF "children" \in DOMAIN node THEN 1 + TreeDepth(node.children[1]) ELSE 1

SavedChapterCount ==
    IF exporter.jsonFile
    THEN IF \E f \in outFiles : f.kind = "json"
         THEN TreeDepth((CHOOSE f \in outFiles : f.kind = "json").data[1])
         ELSE 0
    ELSE IF exporter.singleFile
    THEN IF \E f \in outFiles : f.kind = "combined"
         THEN Len((CHOOSE f \in outFiles : f.kind = "combined").sections)
         ELSE 0
    ELSE Cardinality({f \in outFiles : f.kind = "chapter"})

\* C8: a failure to load, convert or write an image is never thrown out of
\* processImages; the loop moves on past the failed entry, reaches every entry
\* of every image list, and a run in which no page load and no chapter write
\* fails saves every chapter of the chain.
C8_ImageFailureNotFatal ==
    /\ threw # "image"
    /\ \A e \in FailedImageEntries :
          chapIdx > e.at.ch \/ (chapIdx = e.at.ch /\ imgIdx > e.at.idx)
    /\ RunCompleted =>
          /\ SavedChapterCount = Len(storyChain)
          /\ \A c \in 1..Len(storyChain) :
                \A k \in 1..Len(storyChain[c].images) :
                    \E e \in imgLog : e.at = [ch |-> c - 1, idx |-> k - 1]

C8_Witness ==
    /\ RunCompleted
    /\ Len(storyChain) >= 2
    /\ SavedChapterCount = Len(storyChain)
    /\ [at |-> [ch |-> 0, idx |-> 0], what |-> "load_failed"] \in imgLog
    /\ [at |-> [ch |-> 0, idx |-> 1], what |-> "done"] \in imgLog


\* the chapter files written
ChapterFiles == {f \in outFiles : f.kind = "chapter"}

\* C16: a completed run in per-chapter mode over a chain of n chapters has
\* written exactly n chapter files; the chapter at position i (from 0) of the
\* chain is in the file named by the two-digit index i, "_", the sanitized
\* title and ".md"; the input chapter is in the file of index n - 1.
C16_OneFilePerChapter ==
    (RunCompleted /\ ~exporter.singleFile /\ ~exporter.jsonFile) =>
        /\ Cardinality(ChapterFiles) = Len(storyChain)
        /\ \A i \in 0..(Len(storyChain) - 1) :
              \E f \in ChapterFiles :
                 /\ f.name = Pad2(i) \o <<"_">>
                                \o sanitizeFilename(storyChain[i + 1].title)
                                \o <<".", "m", "d">>
                 /\ f.url = storyChain[i + 1].url
                 /\ i = Len(storyChain) - 1 => f.url = storyUrl

C16_Witness ==
    /\ RunCompleted
    /\ ~exporter.singleFile /\ ~exporter.jsonFile
    /\ Len(storyChain) >= 2
    /\ Cardinality(ChapterFiles) = Len(storyChain)

\* C17: in combined mode no chapter file is ever written, the only file is
\* written once all chapters were handed to saveStory, and after a completed
\* run it names the first chapter's title as main title, the chapter count n
\* and the n URLs in chain order, and holds the n chapters in chain order under
\* the numbers 1..n, with a separator after each one but the last.
C17_CombinedFile ==
    exporter.singleFile =>
        /\ ChapterFiles = {}
        /\ outFiles # {} =>
              /\ pc \in {"finally", "exited"}
              /\ Len(exporter.combinedStories) = Len(storyChain)
        /\ RunCompleted =>
              /\ Cardinality(outFiles) = 1
              /\ \A f \in outFiles :
                    /\ f.kind = "combined"
                    /\ f.title = storyChain[1].title
                    /\ f.count = Len(storyChain)
                    /\ f.urls = [k \in 1..Len(storyChain) |-> storyChain[k].url]
                    /\ Len(f.sections) = Len(storyChain)
                    /\ \A k \in 1..Len(storyChain) :
                          /\ f.sections[k].number = k
                          /\ f.sections[k].title = storyChain[k].title
                          /\ f.sections[k].url = storyChain[k].url
                          /\ f.sections[k].separator = (k < Len(storyChain))

C17_Witness ==
    /\ RunCompleted
    /\ exporter.singleFile
    /\ Len(storyChain) >= 2
    /\ \E f \in outFiles : f.kind = "combined" /\ f.count = Len(storyChain)

\* the node reached from node by k - 1 steps to the first child
RECURSIVE NodeAt(_, _)
NodeAt(node, k) == IF k = 1 THEN node ELSE NodeAt(node.children[1], k - 1)

\* C18: after a completed run in JSON mode over a chain of n chapters the file
\* holds an array of one root node; the nesting depth is n, the node at depth
\* k is chapter k of the chain, it has exactly one child when k < n and no
\* children when k = n.
C18_JsonTree ==
    (RunCompleted /\ exporter.jsonFile) =>
        /\ Cardinality(outFiles) = 1
        /\ \A f \in outFiles :
              /\ f.kind = "json"
              /\ Len(f.data) = 1
              /\ TreeDepth(f.data[1]) = Len(storyChain)
              /\ \A k \in 1..Len(storyChain) :
                    LET node == NodeAt(f.data[1], k)
                    IN  /\ node.title = storyChain[k].title
                        /\ IF k < Len(storyChain)
                           THEN Len(node.children) = 1
                           ELSE "children" \notin DOMAIN node

C18_Witness ==
    /\ RunCompleted
    /\ exporter.jsonFile
    /\ Len(storyChain) >= 2
    /\ \E f \in outFiles : f.kind = "json" /\ TreeDepth(f.data[1]) = Len(storyChain)

C22_OneRequestInFlight == Cardinality(inFlight) <= 1

C22_Witness ==
    /\ \E r \in inFlight : r.kind = "image"
    /\ chapIdx >= 1
    /\ imgIdx >= 1
    /\ \A u \in 1..RunUrls : pageLoads[u] >= 1

\* C29 (as claimed): in direct HTTP mode with a session cookie configured,
\* every request of a chapter page carries that cookie in its Cookie header.
C29_HttpRequestCarriesCookie ==
    \A r \in inFlight :
        (r.kind = "page" /\ r.via = "http" /\ credentials.sessionCookie # "none")
            => r.cookieHeader = credentials.sessionCookie

\* ------------------------------------------------------------------------
\* Specification of the parent link: the walk on a site whose pages all carry
\* the same anchors, any anchors, any start URL
\* ------------------------------------------------------------------------

\* the most anchors of a page
MaxAnchors == 2

\* <a href="href">text</a>
AnchorHtml(href, text) ==
    <<A_OPEN>> \o href \o <<ATTR_END>> \o text \o <<"</a>">>

NEXT_CHAPTER == <<"N","e","x","t"," ","C","h","a","p","t","e","r">>

\* anchors as they occur on chapter pages.  Each is described by what it looks
\* like to a reader: the chapter its target names (None: no chapter of the
\* site) and whether its text reads `Previous Chapter`.
SampleAnchors ==
    \* absolute and relative links to a chapter
    {[html |-> AnchorHtml(ChapterUrl(v), PREVIOUS_CHAPTER),
      target |-> v, previous |-> TRUE] : v \in Urls}
    \cup {[html |-> AnchorHtml(ChapterPath(v), PREVIOUS_CHAPTER),
           target |-> v, previous |-> TRUE] : v \in Urls}
    \cup {\* text in markup and surrounded by white space
          [html |-> AnchorHtml(ChapterUrl(1),
                      <<"\n", "<b>">> \o PREVIOUS_CHAPTER \o <<"</b>", " ">>),
           target |-> 1, previous |-> TRUE],
          \* other texts
          [html |-> AnchorHtml(ChapterUrl(2), NEXT_CHAPTER),
           target |-> 2, previous |-> FALSE],
          [html |-> AnchorHtml(ChapterUrl(1), ToLowerCase(PREVIOUS_CHAPTER)),
           target |-> 1, previous |-> FALSE],
          [html |-> AnchorHtml(ChapterUrl(2), PREVIOUS_CHAPTER \o <<"s">>),
           target |-> 2, previous |-> FALSE],
          \* targets that are no chapter: a story page, a chapter path
          \* without identifier, no target
          [html |-> AnchorHtml(<<"/","s","t","o","r","y","/","s",".","9">>,
                               PREVIOUS_CHAPTER),
           target |-> None, previous |-> TRUE],
          [html |-> AnchorHtml(CHAPTER_PATH \o <<"c">>, PREVIOUS_CHAPTER),
           target |-> None, previous |-> TRUE],
          [html |-> AnchorHtml(<<>>, PREVIOUS_CHAPTER),
           target |-> None, previous |-> TRUE]}

\* the anchors of a page: up to MaxAnchors of the samples, in any order
AnchorLists == UNION {[1..n -> SampleAnchors] : n \in 0..MaxAnchors}

RECURSIVE AnchorListHtml(_)
AnchorListHtml(list) ==
    IF list = <<>> THEN <<>>
    ELSE Head(list).html \o <<" ">> \o AnchorListHtml(Tail(list))

\* the anchors a page body was written from
AnchorsOfBody(body) ==
    LET ends == CharPositions(body, "</a>")
        EndOf(k) == CHOOSE e \in ends : Cardinality({d \in ends : d < e}) = k - 1
        StartOf(k) == IF k = 1 THEN 1 ELSE EndOf(k - 1) + 2
    IN  [k \in 1..Cardinality(ends) |->
            CHOOSE a \in SampleAnchors :
                a.html = SubSeq(body, StartOf(k), EndOf(k))]

InitParent ==
    /\ pc = "walk"
    /\ threw = "none"
    /\ siteParent = [u \in Urls |-> None]
    /\ \E list \in AnchorLists : siteBody = [u \in Urls |-> AnchorListHtml(list)]
    /\ siteStatus = [u \in Urls |-> 200]
    /\ storyUrl \in Urls
    /\ currentUrl = storyUrl
    /\ visitedUrls = {}
    /\ stories = <<>>
    /\ cycleLogged = FALSE
    /\ storyChain = <<>>
    /\ pageLoads = [u \in Urls |-> 0]
    /\ inFlight = {}
    /\ fromFetcher = TRUE
    /\ exporter = NewExporter(TRUE, FALSE, FALSE, FALSE, FALSE)
    /\ chapIdx = 0
    /\ imgIdx = 0
    /\ processedImages = {}
    /\ imageLoads = <<>>
    /\ imageFiles = {}
    /\ embeds = {}
    /\ imgLog = {}
    /\ outFiles = {}
    /\ InsideDownload(DefaultArgv)

SpecParent == InitParent /\ [][NextWalk]_vars

\* the positions of the anchors of the list that qualify as the parent link of
\* chapter u: the text reads `Previous Chapter`, the target is a chapter other
\* than u
QualifyingAnchors(list, u) ==
    {k \in 1..Len(list) :
        list[k].previous /\ list[k].target # None /\ list[k].target # u}

\* the parent of chapter u on a page with these anchors
FirstQualifyingTarget(list, u) ==
    IF QualifyingAnchors(list, u) = {} THEN None
    ELSE list[MinOf(QualifyingAnchors(list, u))].target

\* C23: the parentUrl of every fetched chapter is the target of the first
\* anchor of its page, in document order, whose text is `Previous Chapter` and
\* whose target is a chapter other than the fetched one, and it is absent when
\* the page has no such anchor; so parentUrl never equals the chapter's url.
C23_ParentIsFirstPreviousLink ==
    \A k \in 1..Len(stories) :
        /\ stories[k].parentUrl =
              FirstQualifyingTarget(AnchorsOfBody(siteBody[stories[k].url]),
                                    stories[k].url)
        /\ stories[k].parentUrl # stories[k].url

\* a chapter was fetched whose page links to the chapter itself first, by a
\* relative link, and to its parent after that
C23_Witness ==
    /\ Len(stories) >= 2
    /\ LET own == stories[Len(stories)]
           list == AnchorsOfBody(siteBody[own.url])
       IN  /\ Len(list) = 2
           /\ list[1].previous
           /\ list[1].target = own.url
           /\ list[1].html = AnchorHtml(ChapterPath(own.url), PREVIOUS_CHAPTER)
           /\ own.parentUrl = list[2].target
           /\ own.parentUrl # None

\* C24 (as claimed): a session cookie given with --cookie is the one the run
\* authenticates with: when the authentication is set up, the session cookie
\* of the credentials is the user's, whatever the session file holds.
C24_UserCookieKept ==
    (pc = "setup_auth" /\ argv.cookie) => credentials.sessionCookie = "user"

C26_BrowserClosedOnExit ==
    /\ pc = "exited" => openBrowsers = 0
    /\ openBrowsers <= 1

\* C27 (as claimed): in one run no chapter URL is loaded more than once.
C27_PageLoadedOnce == \A u \in Urls : pageLoads[u] <= 1

\* the local image paths a Markdown text refers to: what stands between
\* `](` and the next `)` wherever `](` is followed by `images/`
MarkdownImagePaths(markdown) ==
    {SubSeq(markdown, p + 2,
            MinOf({q \in (p + 2)..(Len(markdown) + 1) :
                      q > Len(markdown) \/ markdown[q] = ")"}) - 1) :
        p \in Occurrences(markdown, <<"]", "(">> \o IMAGES_DIR \o <<"/">>)}

\* C28 (as claimed): in file mode every local image path that the Markdown of
\* a written chapter file refers to is the path of a file written into the
\* images directory.
C28_LocalRefsAreWritten ==
    ~exporter.embedImages =>
        \A f \in outFiles :
            f.kind = "chapter" =>
                \A path \in MarkdownImagePaths(f.markdown) :
                    \E g \in imageFiles : g.path = path

\* C30 (as claimed): when the images of a chapter have been processed with a
\* browser page, every non-placeholder URL of its image list was loaded.
C30_DistinctUrlsAttempted ==
    (pc = "save" /\ exporter.page) =>
        \A k \in 1..Len(CurStory.images) :
            ~IsPlaceholder(FullUrl(CurStory.images[k])) =>
                LoadsOf(FullUrl(CurStory.images[k])) >= 1

====
